---- MODULE Spec2Model ----
(***************************************************************************)
(* A model of the chunked texel store of kuilu (Terrain2D / Chunk2D), its  *)
(* cellular-automaton simulation tick and its event fan-out.               *)
(*                                                                         *)
(* Vectors are pairs <<x, y>>.  An Option<T> is a record with a `some`     *)
(* flag and the fields of T (with a fixed filler when `some` is FALSE).    *)
(***************************************************************************)
EXTENDS Integers, Sequences, FiniteSets, TLC

(***************************************************************************)
(* Bounds of the model.  The chunk is scaled down from the 32 x 32 texels  *)
(* of the source; everything else is computed from SIZE_X and SIZE_Y.      *)
(***************************************************************************)
SIZE_X == 2
SIZE_Y == 2
\* the frame counter is stopped at MaxFrame
MaxFrame == 2
\* number of calls of the public API (set_texel, add_chunk, remove_chunk)
MaxOps == 2
\* the frames of the scenario of one grain: every scan order of a tick occurs
GrainMaxFrame == 4
\* number of Chunk2D::set_texel calls made in a row on one chunk
MaxWrites == 4

(***************************************************************************)
(* Vector2I                                                                *)
(***************************************************************************)
ZERO == <<0, 0>>
ONE == <<1, 1>>
UP == <<0, 1>>
RIGHT == <<1, 0>>
DOWN == <<0, -1>>
LEFT == <<-1, 0>>

VAdd(a, b) == <<a[1] + b[1], a[2] + b[2]>>
VNeg(a) == <<-a[1], -a[2]>>
VMin(a, b) == <<IF a[1] < b[1] THEN a[1] ELSE b[1], IF a[2] < b[2] THEN a[2] ELSE b[2]>>
VMax(a, b) == <<IF a[1] > b[1] THEN a[1] ELSE b[1], IF a[2] > b[2] THEN a[2] ELSE b[2]>>

Min2(a, b) == IF a < b THEN a ELSE b
Max2(a, b) == IF a > b THEN a ELSE b

\* util::math, floor division and floor remainder
wrapping_quotient(a, b) == a \div b
wrapping_remainder(a, b) == a % b

\* Rust's `%` on i32: the remainder takes the sign of the dividend
RustRem(a, b) == IF a >= 0 THEN a % b ELSE -((-a) % b)

(***************************************************************************)
(* Option<u8> (the simulation_frame argument)                              *)
(***************************************************************************)
NoFrame == [some |-> FALSE, value |-> 0]
SomeFrame(v) == [some |-> TRUE, value |-> v]

(***************************************************************************)
(* texel_behaviour2d.rs: the material table ID_MAP                         *)
(***************************************************************************)
NoGravity == [some |-> FALSE, dir |-> "Down", strength |-> 0]
GravityDown(s) == [some |-> TRUE, dir |-> "Down", strength |-> s]
GravityUp(s) == [some |-> TRUE, dir |-> "Up", strength |-> s]

KnownIds == {1, 2, 3, 4, 5, 6, 7, 8, 11, 12, 13}

NoBehaviour == [some |-> FALSE, form |-> "Solid", has_collision |-> FALSE, gravity |-> NoGravity]
Behaviour(f, c, g) == [some |-> TRUE, form |-> f, has_collision |-> c, gravity |-> g]

\* a variant of OUT_OF_BOUNDS with the form Liquid
OUT_OF_BOUNDS_liquid == Behaviour("Liquid", TRUE, NoGravity)

OUT_OF_BOUNDS == Behaviour("Solid", TRUE, NoGravity)

from_id(id) ==
    CASE id \in {1, 2, 3} -> Behaviour("Solid", TRUE, GravityDown(200))
      [] id = 4 -> Behaviour("Liquid", FALSE, GravityDown(50))
      [] id = 5 -> Behaviour("Liquid", FALSE, GravityDown(20))
      [] id = 6 -> Behaviour("Gas", FALSE, GravityUp(10))
      [] id = 7 -> Behaviour("Gas", FALSE, GravityDown(10))
      [] id = 8 -> Behaviour("Gas", FALSE, NoGravity)
      [] id \in {11, 12, 13} -> Behaviour("Solid", TRUE, NoGravity)
      [] OTHER -> NoBehaviour

is_empty(id) == ~from_id(id).some

has_collision(id) == IF from_id(id).some THEN from_id(id).has_collision ELSE FALSE

\* TexelGravity::abs: the strength carried by Down(_) or Up(_)
gravity_abs(g) == g.strength

\* Texel2D::behaviour: the behaviour of the id of the texel
Texel2D_behaviour(t) == from_id(t.id)

\* a variant of GravityVector that points up whatever the gravity
GravityVector_up(g) == UP

\* From<TexelGravity> for Vector2I
GravityVector(g) == IF g.dir = "Down" THEN DOWN ELSE UP

\* a variant of can_displace without the last rule: a texel with gravity displaces a
\* texel without gravity whatever its form
can_displace_any_form(from, to) ==
    IF ~to.some THEN TRUE
    ELSE IF from.gravity.some /\ to.gravity.some
         THEN IF from.gravity.dir = to.gravity.dir
              THEN from.gravity.strength > to.gravity.strength
              ELSE TRUE
         ELSE TRUE

\* a variant of can_displace in which equal strength displaces too
can_displace_equal(from, to) ==
    IF ~to.some THEN TRUE
    ELSE IF from.gravity.some /\ to.gravity.some
         THEN IF from.gravity.dir = to.gravity.dir
              THEN from.gravity.strength >= to.gravity.strength
              ELSE TRUE
         ELSE to.form # "Solid"

\* `from` is a behaviour, `to` an Option<behaviour>
can_displace(from, to) ==
    IF ~to.some THEN TRUE
    ELSE IF from.gravity.some /\ to.gravity.some
         THEN IF from.gravity.dir = to.gravity.dir
              THEN from.gravity.strength > to.gravity.strength
              ELSE TRUE
         ELSE to.form # "Solid"

(***************************************************************************)
(* texel2d.rs                                                              *)
(***************************************************************************)
NEIGHBOUR_OFFSET_VECTORS == <<UP, RIGHT, DOWN, LEFT>>

\* NEIGHBOUR_INDEX_MAP: the position of an offset in NEIGHBOUR_OFFSET_VECTORS
NEIGHBOUR_INDEX_MAP(offset) == CHOOSE k \in 0..3 : NEIGHBOUR_OFFSET_VECTORS[k + 1] = offset

Pow2(k) == CASE k = 0 -> 1 [] k = 1 -> 2 [] k = 2 -> 4 [] k = 3 -> 8 [] OTHER -> 16

\* bit k of the u8 m
Bit(m, k) == (m \div Pow2(k)) % 2

\* m ^ (1 << k)
XorBit(m, k) == IF Bit(m, k) = 1 THEN m - Pow2(k) ELSE m + Pow2(k)

\* a stored texel: the payload (id, density) and the per-cell bookkeeping
StoredTexel(id, density, mask, last) ==
    [id |-> id, density |-> density, neighbour_mask |-> mask, last_simulation |-> last]

DefaultTexel == StoredTexel(0, 0, 0, 0)

\* the Texel2D value handed to set_texel: Texel2D { id, density }
Texel2D(id, density) == [id |-> id, density |-> density]

Payload(t) == Texel2D(t.id, t.density)

(***************************************************************************)
(* chunk2d.rs                                                              *)
(***************************************************************************)
TexelCount == SIZE_X * SIZE_Y
TexelIndices == 0..(TexelCount - 1)
Locals == {<<x, y>> : x \in 0..(SIZE_X - 1), y \in 0..(SIZE_Y - 1)}

NoRect == [some |-> FALSE, min |-> ZERO, max |-> ZERO]
ChunkRect(min, max) == [some |-> TRUE, min |-> min, max |-> max]

\* a variant of include_point that forgets the rect it extends
include_point_only(rect, point) == ChunkRect(point, point)

include_point(rect, point) == ChunkRect(VMin(rect.min, point), VMax(rect.max, point))

InRect(rect, p) ==
    /\ rect.some
    /\ rect.min[1] <= p[1] /\ p[1] <= rect.max[1]
    /\ rect.min[2] <= p[2] /\ p[2] <= rect.max[2]

\* local_to_texel_index is Some exactly for these positions
InChunk(position) ==
    /\ position[1] >= 0 /\ position[2] >= 0
    /\ position[1] < SIZE_X /\ position[2] < SIZE_Y

local_to_texel_index(position) == position[2] * SIZE_X + position[1]

texel_index_to_local(i) == <<i % SIZE_X, i \div SIZE_Y>>

Chunk2D_new == [texels |-> [i \in TexelIndices |-> DefaultTexel], dirty_rect |-> NoRect]

mark_all_dirty(chunk) ==
    [chunk EXCEPT !.dirty_rect = ChunkRect(ZERO, VAdd(<<SIZE_X, SIZE_Y>>, VNeg(ONE)))]

\* a variant of Chunk2D::mark_dirty that marks nothing
Chunk2D_mark_dirty_none(chunk, position) == chunk

Chunk2D_mark_dirty(chunk, position) ==
    [chunk EXCEPT !.dirty_rect =
        IF chunk.dirty_rect.some
        THEN include_point(chunk.dirty_rect, position)
        ELSE ChunkRect(position, position)]

\* a variant of mark_clean that keeps the dirty rect
mark_clean_keep(chunk) == chunk

mark_clean(chunk) == [chunk EXCEPT !.dirty_rect = NoRect]

\* Option<Texel2D>: `some` is FALSE outside the chunk
NoTexel == [some |-> FALSE, texel |-> DefaultTexel]
SomeTexel(t) == [some |-> TRUE, texel |-> t]

Chunk2D_get_texel(chunk, position) ==
    IF InChunk(position)
    THEN SomeTexel(chunk.texels[local_to_texel_index(position)])
    ELSE NoTexel

\* Chunk2D::get_latest_simulation: the last_simulation of the texel, None outside
\* the chunk
Chunk2D_get_latest_simulation(chunk, position) ==
    IF InChunk(position)
    THEN SomeFrame(chunk.texels[local_to_texel_index(position)].last_simulation)
    ELSE NoFrame

\* the density of the written texel is stored with its id
StoreDensity(texel, new_texel) == [texel EXCEPT !.density = new_texel.density]

\* the offsets k for which the cell of index j is the neighbour position + offset
\* that get_texel_mut finds inside the chunk
FlipsAt(position, j) ==
    {k \in 1..4 :
        /\ InChunk(VAdd(position, NEIGHBOUR_OFFSET_VECTORS[k]))
        /\ local_to_texel_index(VAdd(position, NEIGHBOUR_OFFSET_VECTORS[k])) = j}

\* a variant of FlippedBit that takes the offset itself instead of the reverse offset
FlippedBit_same(k) == NEIGHBOUR_INDEX_MAP(NEIGHBOUR_OFFSET_VECTORS[k])

\* the bit flipped in the neighbour reached through offset k: the reverse offset
FlippedBit(k) == NEIGHBOUR_INDEX_MAP(VNeg(NEIGHBOUR_OFFSET_VECTORS[k]))

\* a variant of mark_if_changed that marks the position whatever the ids
mark_always(chunk, position, old_id, new_id) == Chunk2D_mark_dirty(chunk, position)

\* `if self.texels[i].id != id { self.mark_dirty(position); }`
mark_if_changed(chunk, position, old_id, new_id) ==
    IF old_id # new_id THEN Chunk2D_mark_dirty(chunk, position) ELSE chunk

\* Chunk2D::set_texel on a position inside the chunk; [chunk, changed]
Chunk2D_set_texel(chunk, position, new_texel, simulation_frame) ==
    LET i == local_to_texel_index(position)
        old == chunk.texels[i]
        marked == mark_if_changed(chunk, position, old.id, new_texel.id)
        update_neighbours == has_collision(old.id) # has_collision(new_texel.id)
        changed == old.id # new_texel.id
        written ==
            [StoreDensity(old, new_texel) EXCEPT
                !.id = new_texel.id,
                !.last_simulation =
                    IF simulation_frame.some THEN simulation_frame.value ELSE @]
        texels1 == [marked.texels EXCEPT ![i] = written]
        texels2 ==
            [j \in TexelIndices |->
                LET ks == FlipsAt(position, j)
                IN  IF update_neighbours /\ ks # {}
                    THEN [texels1[j] EXCEPT
                            !.neighbour_mask = XorBit(@, FlippedBit(CHOOSE k \in ks : TRUE))]
                    ELSE texels1[j]]
    IN  [chunk |-> [marked EXCEPT !.texels = texels2], changed |-> changed]

(***************************************************************************)
(* chunk2d.rs: create_collision_data.  A Segment2I is [from, to]; an       *)
(* island is a sequence of segments, front first.                          *)
(***************************************************************************)
Segment2I(from, to) == [from |-> from, to |-> to]

\* MST_CASE_MAP: the segments of an empty tile, by its neighbour_mask
MST_CASE_MAP(mask) ==
    CASE mask = 1 -> <<Segment2I(ONE, UP)>>
      [] mask = 2 -> <<Segment2I(RIGHT, ONE)>>
      [] mask = 3 -> <<Segment2I(RIGHT, UP)>>
      [] mask = 4 -> <<Segment2I(ZERO, RIGHT)>>
      [] mask = 5 -> <<Segment2I(ONE, UP), Segment2I(ZERO, RIGHT)>>
      [] mask = 6 -> <<Segment2I(ZERO, ONE)>>
      [] mask = 7 -> <<Segment2I(ZERO, UP)>>
      [] mask = 8 -> <<Segment2I(UP, ZERO)>>
      [] mask = 9 -> <<Segment2I(ONE, ZERO)>>
      [] mask = 10 -> <<Segment2I(RIGHT, ONE), Segment2I(UP, ZERO)>>
      [] mask = 11 -> <<Segment2I(RIGHT, ZERO)>>
      [] mask = 12 -> <<Segment2I(UP, RIGHT)>>
      [] mask = 13 -> <<Segment2I(ONE, RIGHT)>>
      [] mask = 14 -> <<Segment2I(UP, ONE)>>
      [] OTHER -> <<>>

\* a variant of MST_EDGE_CASE_MAP whose left segment runs downwards
MST_EDGE_CASE_MAP_left_down ==
    <<Segment2I(UP, ONE), Segment2I(ONE, RIGHT), Segment2I(RIGHT, ZERO), Segment2I(UP, ZERO)>>

\* MST_EDGE_CASE_MAP: the segment of a colliding tile on the edge up, right, down, left
MST_EDGE_CASE_MAP ==
    <<Segment2I(UP, ONE), Segment2I(ONE, RIGHT), Segment2I(RIGHT, ZERO), Segment2I(ZERO, UP)>>

\* a variant of edge_bit for an edge_mask that is always 0
edge_bit_clear(local, k) == FALSE

\* is bit k (0 up, 1 right, 2 down, 3 left) set in edge_mask of the tile at local
edge_bit(local, k) ==
    CASE k = 0 -> local[2] = SIZE_Y - 1
      [] k = 1 -> local[1] = SIZE_X - 1
      [] k = 2 -> local[2] = 0
      [] OTHER -> local[1] = 0

\* the segments of seq moved by local
offset_sides(seq, local) ==
    [k \in 1..Len(seq) |-> Segment2I(VAdd(seq[k].from, local), VAdd(seq[k].to, local))]

\* `sides` of the texel of index i; empty for a colliding tile off the edges
tile_sides(chunk, i) ==
    IF ~has_collision(chunk.texels[i].id)
    THEN offset_sides(MST_CASE_MAP(chunk.texels[i].neighbour_mask), texel_index_to_local(i))
    ELSE offset_sides(
            SelectSeq(MST_EDGE_CASE_MAP,
                LAMBDA edge : \E k \in 0..3 :
                    /\ MST_EDGE_CASE_MAP[k + 1] = edge
                    /\ edge_bit(texel_index_to_local(i), k)),
            texel_index_to_local(i))

\* island.back()
Back(island) == island[Len(island)]

\* "Connect to an island if possible, otherwise create a new island": the side goes
\* to the back of the last island that ends where it starts
connect_side(islands, side) ==
    IF \E k \in 1..Len(islands) : Back(islands[k]).to = side.from
    THEN [islands EXCEPT
            ![CHOOSE k \in 1..Len(islands) :
                /\ Back(islands[k]).to = side.from
                /\ \A m \in 1..Len(islands) : Back(islands[m]).to = side.from => m <= k]
                = Append(@, side)]
    ELSE Append(islands, <<side>>)

\* the islands i whose back meets the front of another island
MergeCandidates(islands) ==
    {i \in 1..Len(islands) :
        \E j \in 1..Len(islands) : i # j /\ Back(islands[i]).to = islands[j][1].from}

\* Vec::swap_remove
swap_remove(seq, index) ==
    IF index = Len(seq) THEN SubSeq(seq, 1, Len(seq) - 1)
    ELSE [SubSeq(seq, 1, Len(seq) - 1) EXCEPT ![index] = seq[Len(seq)]]

\* the segments of merge_from are pushed to the front of the first island that
\* starts where merge_from ends
merge_into(rest, merge_from) ==
    IF \E k \in 1..Len(rest) : rest[k][1].from = Back(merge_from).to
    THEN [rest EXCEPT
            ![CHOOSE k \in 1..Len(rest) :
                /\ rest[k][1].from = Back(merge_from).to
                /\ \A m \in 1..Len(rest) : rest[m][1].from = Back(merge_from).to => k <= m]
                = merge_from \o @]
    ELSE rest

\* merge_index: the first island whose back meets the front of another island
merge_index(islands) ==
    CHOOSE i \in MergeCandidates(islands) : \A n \in MergeCandidates(islands) : i <= n

RECURSIVE merge_islands(_)
\* "Find connected islands" / "Merge connected islands", until nothing merges
merge_islands(islands) ==
    IF MergeCandidates(islands) = {} THEN islands
    ELSE merge_islands(
            merge_into(swap_remove(islands, merge_index(islands)),
                       islands[merge_index(islands)]))

RECURSIVE add_sides(_, _, _)
\* `for side in sides`, from the k-th side on
add_sides(islands, sides, k) ==
    IF k > Len(sides) THEN islands
    ELSE add_sides(merge_islands(connect_side(islands, sides[k])), sides, k + 1)

RECURSIVE collect_islands(_, _, _)
\* `for i in 0..self.texels.len()`, from the texel of index i on
collect_islands(chunk, islands, i) ==
    IF i >= TexelCount THEN islands
    ELSE collect_islands(chunk, add_sides(islands, tile_sides(chunk, i), 1), i + 1)

\* Segment2I::angle, as the direction of the segment
angle(side) == <<side.to[1] - side.from[1], side.to[2] - side.from[2]>>

RECURSIVE island_points(_, _, _)
\* the points pushed for the sides k.. of the island
island_points(island, points, k) ==
    IF k > Len(island) THEN points
    ELSE island_points(island,
            IF k > 1 /\ angle(island[k - 1]) = angle(island[k])
            THEN [points EXCEPT ![Len(points)] = island[k].to]
            ELSE Append(points, island[k].to),
            k + 1)

\* the polylines returned, each with the number of segments of its island
create_collision_data(chunk) ==
    LET islands == collect_islands(chunk, <<>>, 0)
        kept == SelectSeq(islands, LAMBDA island : ~(Len(island) < 4))
    IN  [k \in 1..Len(kept) |->
            [segments |-> Len(kept[k]),
             points |-> island_points(kept[k], <<kept[k][1].from>>, 1)]]

(***************************************************************************)
(* terrain2d.rs: coordinates                                               *)
(***************************************************************************)
chunk_index_to_global(chunk_pos) == <<chunk_pos[1] * SIZE_X, chunk_pos[2] * SIZE_Y>>

local_to_global(local, chunk_index) == VAdd(chunk_index_to_global(chunk_index), local)

\* a variant of global_to_local with the remainder of `%`
global_to_local_rem(global) ==
    <<RustRem(global[1], SIZE_X), RustRem(global[2], SIZE_Y)>>

global_to_local(global) ==
    <<wrapping_remainder(global[1], SIZE_X), wrapping_remainder(global[2], SIZE_Y)>>

global_to_chunk_index(position) ==
    <<wrapping_quotient(position[1], SIZE_X), wrapping_quotient(position[2], SIZE_Y)>>

(***************************************************************************)
(* terrain2d.rs: Terrain2D.  A terrain value T is a record                 *)
(*   chunk_map : the chunk indices of the model -> Option<Chunk2D>         *)
(*   events    : the queue of TerrainEvent2D                               *)
(*   swaps     : the pairs swap_texels exchanged, in order (a log kept for *)
(*               the properties, read by no operation)                     *)
(***************************************************************************)
\* the chunk indices that can hold a chunk in the model: two chunks side by side
ChunkIndices == {<<0, 0>>, <<1, 0>>}

\* Terrain2D::new(top, bottom, left, right): the world is the two chunks
\* without the rightmost column, which is out of bounds
SomeI32(v) == [some |-> TRUE, value |-> v]
top_boundary == SomeI32(SIZE_Y)
bottom_boundary == SomeI32(0)
left_boundary == SomeI32(0)
right_boundary == SomeI32(2 * SIZE_X - 1)

NoChunk == [some |-> FALSE, chunk |-> Chunk2D_new]
SomeChunk(c) == [some |-> TRUE, chunk |-> c]

ChunkAdded(index) == [kind |-> "ChunkAdded", index |-> index, rect |-> NoRect]
ChunkRemoved(index) == [kind |-> "ChunkRemoved", index |-> index, rect |-> NoRect]
TexelsUpdated(index, rect) == [kind |-> "TexelsUpdated", index |-> index, rect |-> rect]

Terrain2D_new ==
    [chunk_map |-> [index \in ChunkIndices |-> NoChunk], events |-> <<>>, swaps |-> <<>>]

\* a variant of add_chunk that queues no event
add_chunk_silent(T, index, chunk) == [T EXCEPT !.chunk_map[index] = SomeChunk(chunk)]

add_chunk(T, index, chunk) ==
    [T EXCEPT !.chunk_map[index] = SomeChunk(chunk),
              !.events = Append(@, ChunkAdded(index))]

\* a variant of remove_chunk that queues the event and keeps the chunk
remove_chunk_keep(T, index) == [T EXCEPT !.events = Append(@, ChunkRemoved(index))]

\* a variant of remove_chunk that queues no event
remove_chunk_silent(T, index) == [T EXCEPT !.chunk_map[index] = NoChunk]

remove_chunk(T, index) ==
    [T EXCEPT !.events = Append(@, ChunkRemoved(index)),
              !.chunk_map[index] = NoChunk]

index_to_chunk(T, index) ==
    IF index \in DOMAIN T.chunk_map THEN T.chunk_map[index] ELSE NoChunk

global_to_chunk(T, global) == index_to_chunk(T, global_to_chunk_index(global))

mark_dirty(T, global) ==
    LET index == global_to_chunk_index(global)
    IN  IF index_to_chunk(T, index).some
        THEN [T EXCEPT !.chunk_map[index].chunk = Chunk2D_mark_dirty(@, global_to_local(global))]
        ELSE T

\* is_within_boundaries of a terrain with the boundaries top, bottom, left, right
within_boundaries(top, bottom, left, right, global) ==
    /\ ~(top.some /\ global[2] >= top.value)
    /\ ~(bottom.some /\ global[2] < bottom.value)
    /\ ~(left.some /\ global[1] < left.value)
    /\ ~(right.some /\ global[1] >= right.value)

is_within_boundaries(global) ==
    within_boundaries(top_boundary, bottom_boundary, left_boundary, right_boundary, global)

\* a variant of get_texel that hands the global position to the chunk
get_texel_global(T, global) ==
    IF global_to_chunk(T, global).some
    THEN Chunk2D_get_texel(global_to_chunk(T, global).chunk, global)
    ELSE NoTexel

get_texel(T, global) ==
    IF global_to_chunk(T, global).some
    THEN Chunk2D_get_texel(global_to_chunk(T, global).chunk, global_to_local(global))
    ELSE NoTexel

\* Option<u8>
get_latest_simulation(T, global) ==
    IF global_to_chunk(T, global).some
    THEN Chunk2D_get_latest_simulation(global_to_chunk(T, global).chunk,
            global_to_local(global))
    ELSE NoFrame

\* a variant of get_texel_behaviour that takes the behaviour from the id whatever the
\* boundaries
get_texel_behaviour_inside(T, global) ==
    [texel |-> get_texel(T, global),
     behaviour |->
        IF get_texel(T, global).some
        THEN from_id(get_texel(T, global).texel.id)
        ELSE NoBehaviour]

\* (Option<Texel2D>, Option<TexelBehaviour2D>)
get_texel_behaviour(T, global) ==
    LET texel == get_texel(T, global)
    IN  [texel |-> texel,
         behaviour |->
            IF is_within_boundaries(global)
            THEN IF texel.some THEN from_id(texel.texel.id) ELSE NoBehaviour
            ELSE OUT_OF_BOUNDS]

\* a variant of MarkNeighbours that marks nothing
MarkNeighbours_none(T, global, k) == T

RECURSIVE MarkNeighbours(_, _, _)
\* the mark_dirty calls k..4 that follow a change: global + UP, RIGHT, DOWN, LEFT
MarkNeighbours(T, global, k) ==
    IF k > 4 THEN T
    ELSE MarkNeighbours(mark_dirty(T, VAdd(global, NEIGHBOUR_OFFSET_VECTORS[k])), global, k + 1)

\* the end of set_texel: `set` is what Chunk2D::set_texel returned for the chunk at
\* index, or for Chunk2D::new() when there was none
StoreChunk(T, global, index, present, set) ==
    IF set.changed
    THEN MarkNeighbours(
            IF present
            THEN [T EXCEPT !.chunk_map[index].chunk = set.chunk]
            ELSE add_chunk(T, index, set.chunk),
            global, 1)
    ELSE IF present
         THEN [T EXCEPT !.chunk_map[index].chunk = set.chunk]
         ELSE add_chunk(T, index, set.chunk)

\* a variant of set_texel without the check of the boundaries
set_texel_unbounded(T, global, new_texel, simulation_frame) ==
    StoreChunk(T, global, global_to_chunk_index(global),
        global_to_chunk(T, global).some,
        Chunk2D_set_texel(
            IF global_to_chunk(T, global).some
            THEN global_to_chunk(T, global).chunk
            ELSE Chunk2D_new,
            global_to_local(global), new_texel, simulation_frame))

Terrain2D_set_texel(T, global, new_texel, simulation_frame) ==
    IF ~is_within_boundaries(global) THEN T
    ELSE StoreChunk(T, global, global_to_chunk_index(global),
            global_to_chunk(T, global).some,
            Chunk2D_set_texel(
                IF global_to_chunk(T, global).some
                THEN global_to_chunk(T, global).chunk
                ELSE Chunk2D_new,
                global_to_local(global), new_texel, simulation_frame))

\* unwrap_or_default of an Option<Texel2D>, as the payload Texel2D { id, density }
UnwrapOrDefault(opt) == IF opt.some THEN Payload(opt.texel) ELSE Texel2D(0, 0)

\* the log of the swap
LogSwap(T, from_global, to_global) ==
    [T EXCEPT !.swaps = Append(@, <<from_global, to_global>>)]

\* a variant of swap_texels that reads the texel at to_global after it wrote there
swap_texels_late_read(T, from_global, to_global, simulation_frame) ==
    LogSwap(
        Terrain2D_set_texel(
            Terrain2D_set_texel(T, to_global,
                UnwrapOrDefault(get_texel(T, from_global)), simulation_frame),
            from_global,
            UnwrapOrDefault(get_texel(
                Terrain2D_set_texel(T, to_global,
                    UnwrapOrDefault(get_texel(T, from_global)), simulation_frame),
                to_global)),
            simulation_frame),
        from_global, to_global)

swap_texels(T, from_global, to_global, simulation_frame) ==
    LogSwap(
        Terrain2D_set_texel(
            Terrain2D_set_texel(T, to_global,
                UnwrapOrDefault(get_texel(T, from_global)), simulation_frame),
            from_global, UnwrapOrDefault(get_texel(T, to_global)), simulation_frame),
        from_global, to_global)

can_transfer_density(T, from_global, to_global) ==
    LET from == UnwrapOrDefault(get_texel(T, from_global))
        to == UnwrapOrDefault(get_texel(T, to_global))
    IN  /\ from.id = to.id
        /\ Texel2D_behaviour(from).some
        /\ Texel2D_behaviour(from).form = "Gas"

U8_MAX == 255
MAX_TARGET_DENSITY == 25

\* a variant of transfer_amount without the cap of MAX_TARGET_DENSITY
transfer_amount_uncapped(from, to, gravity) ==
    Min2(Min2(U8_MAX - to.density, gravity_abs(gravity)), from.density)

\* the density transfer_density moves from the texel `from` to the texel `to`
transfer_amount(from, to, gravity) ==
    Min2(Min2(Min2(U8_MAX - to.density, gravity_abs(gravity)), from.density),
         Max2(MAX_TARGET_DENSITY, to.density) - to.density)

\* the two set_texel calls of transfer_density
transfer_write(T, from_global, to_global, from, to, transfer, simulation_frame) ==
    IF transfer = 0 THEN T
    ELSE Terrain2D_set_texel(
            Terrain2D_set_texel(T, from_global,
                IF from.density - transfer = 0
                THEN Texel2D(0, 0)
                ELSE Texel2D(from.id, from.density - transfer),
                simulation_frame),
            to_global, Texel2D(to.id, to.density + transfer), simulation_frame)

transfer_density(T, from_global, to_global, gravity, simulation_frame) ==
    transfer_write(T, from_global, to_global,
        UnwrapOrDefault(get_texel(T, from_global)),
        UnwrapOrDefault(get_texel(T, to_global)),
        transfer_amount(UnwrapOrDefault(get_texel(T, from_global)),
                        UnwrapOrDefault(get_texel(T, to_global)), gravity),
        simulation_frame)

(***************************************************************************)
(* chunk2d.rs: the chunks the program builds before add_chunk              *)
(***************************************************************************)
\* Chunk2D::xy_vec: the local positions, row by row
xy_vec == [i \in 1..TexelCount |-> <<(i - 1) % SIZE_X, (i - 1) \div SIZE_X>>]

RECURSIVE FillChunk(_, _, _, _)
\* set_texel(local, texel, None) for the positions i.. of xy_vec that are in `cells`
FillChunk(chunk, cells, texel, i) ==
    IF i > TexelCount THEN chunk
    ELSE FillChunk(
            IF xy_vec[i] \in cells
            THEN Chunk2D_set_texel(chunk, xy_vec[i], texel, NoFrame).chunk
            ELSE chunk,
            cells, texel, i + 1)

Abs(a) == IF a < 0 THEN -a ELSE a

\* Chunk2D::new_circle: a disk of loose sand (id 1) around the centre of the chunk
new_circle ==
    LET origin == <<SIZE_X \div 2, SIZE_Y \div 2>>
        radius == SIZE_X \div 2
        disk == {p \in Locals :
                    Abs(p[1] - origin[1]) * Abs(p[1] - origin[1])
                    + Abs(p[2] - origin[2]) * Abs(p[2] - origin[2])
                    <= (radius - 1) * (radius - 1)}
    IN  FillChunk(Chunk2D_new, disk, Texel2D(1, 0), 1)

(***************************************************************************)
(* terrain2d.rs: simulate_texel                                            *)
(***************************************************************************)
\* a variant of simulation_frame_of that takes the low byte of the frame
simulation_frame_low_byte(frame) == frame % (U8_MAX + 1)

\* the tick tag: (frame % u8::MAX) as u8 + 1
simulation_frame_of(frame) == (frame % U8_MAX) + 1

\* the two horizontal directions in the order simulate_texel tries them
slide_dirs(frame, global) ==
    IF ((frame \div 73) % 2) = RustRem(global[2], 2)
    THEN <<LEFT, RIGHT>>
    ELSE <<RIGHT, LEFT>>

\* the position a slide in direction dir leads to
slide_pos(global, behaviour, dir) ==
    IF behaviour.form = "Solid"
    THEN VAdd(VAdd(global, GravityVector(behaviour.gravity)), dir)
    ELSE VAdd(global, dir)

\* `if terrain.can_transfer_density(&global, &grav_pos) { terrain.transfer_density(..) }`
sim_transfer(T, global, behaviour, frame) ==
    IF can_transfer_density(T, global, VAdd(global, GravityVector(behaviour.gravity)))
    THEN transfer_density(T, global, VAdd(global, GravityVector(behaviour.gravity)),
            behaviour.gravity, SomeFrame(simulation_frame_of(frame)))
    ELSE T

RECURSIVE sim_slide(_, _, _, _, _)
\* iterations k..2 of `for dir in dirs.iter()`
sim_slide(T, global, behaviour, frame, k) ==
    IF k > 2 THEN T
    ELSE IF can_displace(behaviour,
                get_texel_behaviour(T,
                    slide_pos(global, behaviour, slide_dirs(frame, global)[k])).behaviour)
    THEN swap_texels(T, global, slide_pos(global, behaviour, slide_dirs(frame, global)[k]),
            SomeFrame(simulation_frame_of(frame)))
    ELSE sim_slide(sim_transfer(T, global, behaviour, frame), global, behaviour, frame, k + 1)

\* "Try falling", then "Try sliding"
sim_fall(T, global, behaviour, frame) ==
    IF can_displace(behaviour,
            get_texel_behaviour(T, VAdd(global, GravityVector(behaviour.gravity))).behaviour)
    THEN swap_texels(T, global, VAdd(global, GravityVector(behaviour.gravity)),
            SomeFrame(simulation_frame_of(frame)))
    ELSE sim_slide(sim_transfer(T, global, behaviour, frame), global, behaviour, frame, 1)

\* a variant of simulate_texel whose gate also opens when the byte equals the strength
simulate_texel_gate_equal(T, global, frame, r) ==
    LET tb == get_texel_behaviour(T, global)
    IN  IF ~(tb.texel.some /\ tb.behaviour.some) THEN T
        ELSE IF ~tb.behaviour.gravity.some THEN T
        ELSE IF ~(tb.behaviour.form # "Gas" \/ gravity_abs(tb.behaviour.gravity) >= r) THEN T
        ELSE sim_fall(T, global, tb.behaviour, frame)

\* r is the byte fastrand::u8(0..u8::MAX) yields; it is drawn for a Gas only
simulate_texel(T, global, frame, r) ==
    LET tb == get_texel_behaviour(T, global)
    IN  IF ~(tb.texel.some /\ tb.behaviour.some) THEN T
        ELSE IF ~tb.behaviour.gravity.some THEN T
        ELSE IF ~(tb.behaviour.form # "Gas" \/ gravity_abs(tb.behaviour.gravity) > r) THEN T
        ELSE sim_fall(T, global, tb.behaviour, frame)

(***************************************************************************)
(* terrain2d.rs: disperse_gas                                              *)
(***************************************************************************)
Range(seq) == {seq[i] : i \in 1..Len(seq)}

\* the orders fastrand::shuffle can leave a vector in
Perms(seq) ==
    {p \in [1..Len(seq) -> Range(seq)] : \A i, j \in 1..Len(seq) : p[i] = p[j] => i = j}

\* valid_globals: the positions that are empty (or without a chunk) or hold a Gas
IsValidGlobal(T, global) ==
    LET b == get_texel_behaviour(T, global).behaviour
    IN  ~b.some \/ b.form = "Gas"

valid_globals(T, global_positions) ==
    SelectSeq(global_positions, LAMBDA g : IsValidGlobal(T, g))

\* the positions whose texel is counted in total_densities
IsGasAt(T, global) ==
    LET tb == get_texel_behaviour(T, global)
    IN  tb.texel.some /\ tb.behaviour.some /\ tb.behaviour.form = "Gas"

GasIdsIn(T, global_positions) ==
    {get_texel(T, g).texel.id : g \in {h \in Range(global_positions) : IsGasAt(T, h)}}

RECURSIVE SumDensity(_, _, _, _)
SumDensity(T, global_positions, id, i) ==
    IF i > Len(global_positions) THEN 0
    ELSE (IF IsGasAt(T, global_positions[i]) /\ get_texel(T, global_positions[i]).texel.id = id
          THEN get_texel(T, global_positions[i]).texel.density ELSE 0)
         + SumDensity(T, global_positions, id, i + 1)

DensitiesOf(T, global_positions, id) ==
    {get_texel(T, g).texel.density :
        g \in {h \in Range(global_positions) :
                    IsGasAt(T, h) /\ get_texel(T, h).texel.id = id}}

SetMin(S) == CHOOSE m \in S : \A n \in S : m <= n
SetMax(S) == CHOOSE m \in S : \A n \in S : m >= n

\* total_densities: id -> (summed density, min, max)
total_densities(T, global_positions) ==
    [id \in GasIdsIn(T, global_positions) |->
        [density |-> SumDensity(T, global_positions, id, 1),
         min |-> SetMin(DensitiesOf(T, global_positions, id)),
         max |-> SetMax(DensitiesOf(T, global_positions, id))]]

\* the orders sort_unstable_by_key + reverse can give the ids: density descending,
\* ids of equal density in any order
SortedOrders(totals) ==
    {o \in [1..Cardinality(DOMAIN totals) -> DOMAIN totals] :
        /\ \A i, j \in DOMAIN o : o[i] = o[j] => i = j
        /\ \A i, j \in DOMAIN o : i < j => totals[o[i]].density >= totals[o[j]].density}

TILE_CAPACITY == 255
STABLE_TRESHOLD == 3

\* a variant of min_slots that divides by TILE_CAPACITY
min_slots_by_capacity(density) == (density \div TILE_CAPACITY) + 1

min_slots(density) == (density \div (TILE_CAPACITY + 1)) + 1

RECURSIVE SumMinSlots(_, _, _)
SumMinSlots(totals, order, i) ==
    IF i > Len(order) THEN 0
    ELSE min_slots(totals[order[i]].density) + SumMinSlots(totals, order, i + 1)

\* the slots of the k-th id of `order` after the free slots are dealt round-robin
slots_of(totals, order, free_slots, k) ==
    min_slots(totals[order[k]].density)
    + (free_slots \div Len(order))
    + (IF (k - 1) < free_slots % Len(order) THEN 1 ELSE 0)

RECURSIVE PackId(_, _, _, _, _)
\* the texels pushed for one id: iterations i..slots-1 of the inner loop
PackId(id, total_density, slots, i, density_left) ==
    IF i >= slots THEN <<>>
    ELSE LET d0 == IF i < slots - 1
                   THEN Min2(total_density \div slots, density_left)
                   ELSE density_left
             density == Min2(d0, U8_MAX)
         IN  IF density > 0
             THEN <<Texel2D(id, density)>>
                  \o PackId(id, total_density, slots, i + 1, density_left - density)
             ELSE PackId(id, total_density, slots, i + 1, density_left)

RECURSIVE PackAll(_, _, _, _)
PackAll(totals, order, free_slots, k) ==
    IF k > Len(order) THEN <<>>
    ELSE PackId(order[k], totals[order[k]].density,
                slots_of(totals, order, free_slots, k), 0, totals[order[k]].density)
         \o PackAll(totals, order, free_slots, k + 1)

RECURSIVE ApplyTexels(_, _, _, _)
ApplyTexels(T, shuffled, texels, i) ==
    IF i > Len(shuffled) THEN T
    ELSE ApplyTexels(
            Terrain2D_set_texel(T, shuffled[i],
                IF i <= Len(texels) THEN texels[i] ELSE Texel2D(0, 0), NoFrame),
            shuffled, texels, i + 1)

\* a variant of IsStable that accepts only equal densities
IsStable_equal_only(totals, free_slots) ==
    \A id \in DOMAIN totals :
        /\ ~(totals[id].max - totals[id].min > 0)
        /\ free_slots > 0 /\ totals[id].max <= STABLE_TRESHOLD

\* the stable check that ends disperse_gas early
IsStable(totals, free_slots) ==
    \A id \in DOMAIN totals :
        /\ ~(totals[id].max - totals[id].min > STABLE_TRESHOLD)
        /\ free_slots > 0 /\ totals[id].max <= STABLE_TRESHOLD

\* the end of disperse_gas, from "Allocate slots" on
disperse_write(T, totals, valid_len, free_slots, texels, shuffled) ==
    IF free_slots < 0 THEN [terrain |-> T, panic |-> TRUE]
    ELSE IF IsStable(totals, free_slots) THEN [terrain |-> T, panic |-> FALSE]
    ELSE IF Len(texels) > valid_len THEN [terrain |-> T, panic |-> TRUE]
    ELSE [terrain |-> ApplyTexels(T, shuffled, texels, 1), panic |-> FALSE]

disperse_slots(T, totals, valid_len, free_slots, order, shuffled) ==
    disperse_write(T, totals, valid_len, free_slots,
        IF free_slots < 0 THEN <<>> ELSE PackAll(totals, order, free_slots, 1), shuffled)

disperse_totals(T, totals, valid_len, order, shuffled) ==
    IF DOMAIN totals = {} THEN [terrain |-> T, panic |-> FALSE]
    ELSE disperse_slots(T, totals, valid_len,
            valid_len - SumMinSlots(totals, order, 1), order, shuffled)

\* order: the ids as sorted; shuffled: valid_globals as shuffled.
\* [terrain, panic]: panic when the u32 subtraction underflows or texels outnumber
\* the valid positions
disperse_gas(T, global_positions, order, shuffled) ==
    disperse_totals(T, total_densities(T, global_positions),
        Len(valid_globals(T, global_positions)), order, shuffled)

(***************************************************************************)
(* terrain2d.rs: terrain_simulation, the ranges it walks                   *)
(***************************************************************************)
\* (lo..hi).collect(), empty when hi < lo
RangeSeq(lo, hi) == [i \in 1..(IF hi >= lo THEN hi - lo + 1 ELSE 0) |-> lo + i - 1]

Reverse(seq) == [i \in 1..Len(seq) |-> seq[Len(seq) + 1 - i]]

RECURSIVE Flatten(_)
Flatten(seqs) == IF seqs = <<>> THEN <<>> ELSE Head(seqs) \o Flatten(Tail(seqs))

\* a variant of scan_cells that reverses both ranges on even frames
scan_cells_parity(rect, frame) ==
    LET ys == RangeSeq(rect.min[2], rect.max[2])
        xs == RangeSeq(rect.min[1], rect.max[1])
        y_range == IF frame % 2 = 0 THEN Reverse(ys) ELSE ys
        x_range == IF frame % 2 = 0 THEN Reverse(xs) ELSE xs
    IN  Flatten([i \in 1..Len(y_range) |->
                    [j \in 1..Len(x_range) |-> <<x_range[j], y_range[i]>>]])

\* the local positions of the texel pass, in scan order
scan_cells(rect, frame) ==
    LET ys == RangeSeq(rect.min[2], rect.max[2])
        xs == RangeSeq(rect.min[1], rect.max[1])
        y_range == IF frame % 2 = 0 THEN Reverse(ys) ELSE ys
        x_range == IF (frame \div 2) % 2 = 0 THEN Reverse(xs) ELSE xs
    IN  Flatten([i \in 1..Len(y_range) |->
                    [j \in 1..Len(x_range) |-> <<x_range[j], y_range[i]>>]])

\* slice::chunks(2)
Chunks2(seq) ==
    [k \in 1..((Len(seq) + 1) \div 2) |->
        SubSeq(seq, 2 * k - 1, Min2(2 * k, Len(seq)))]

\* the windows of the dispersion pass: each the global positions of one window
dispersion_windows(rect, frame, chunk_index) ==
    LET alternate == IF frame % 2 = 0 THEN 1 ELSE 0
        y_range == RangeSeq(rect.min[2] - alternate, rect.max[2] + alternate)
        x_range == RangeSeq(rect.min[1] - alternate, rect.max[1] + alternate)
        y_arrs == Chunks2(y_range)
        x_arrs == Chunks2(x_range)
        window(y_arr, x_arr) ==
            Flatten([i \in 1..Len(y_arr) |->
                [j \in 1..Len(x_arr) |->
                    local_to_global(<<x_arr[j], y_arr[i]>>, chunk_index)]])
    IN  Flatten([i \in 1..Len(y_arrs) |->
                    [j \in 1..Len(x_arrs) |-> window(y_arrs[i], x_arrs[j])]])

\* the staleness refresher: is the chunk marked fully dirty in this frame
refreshed(chunk_index, frame) ==
    RustRem(chunk_index[2], 10) * 10 + RustRem(chunk_index[1], 10) = frame % 100

(***************************************************************************)
(* The state                                                               *)
(***************************************************************************)
VARIABLES
    chunk_map,       \* Terrain2D.chunk_map
    events,          \* Terrain2D.events
    frame,           \* FrameCounter.frame
    stage,           \* the stage of the frame that runs next
    sim,             \* the position of terrain_simulation inside a tick
    panic,           \* an abort was reached
    ops,             \* calls of the public API made so far
    terrain_events,  \* everything sent to EventWriter<TerrainEvent2D>, in order
    emitted,         \* the latest emit_terrain_events: what it found and what it sent
    changed,         \* history: the cells whose id changed since the latest emission
    unreported,      \* history: the cells of `changed` the latest emission had no event for
    written,         \* history: per chunk, the cells written since its last mark_clean
    moved,           \* history: the positions a swap of the current tick moved content to
    moved_twice,     \* history: a swap moved content that a swap of the same tick had moved
    last_op,         \* history: the latest call of the public API
    tick_pre,        \* history: what the world held when the tick began
    probe            \* the input a scenario starts from, or a call of a function and
                     \* what it returned

vars == <<chunk_map, events, frame, stage, sim, panic, ops, terrain_events, emitted,
          changed, unreported, written, moved, moved_twice, last_op, tick_pre, probe>>

\* the terrain value the operations start from
Terrain == [chunk_map |-> chunk_map, events |-> events, swaps |-> <<>>]

(***************************************************************************)
(* Inputs                                                                  *)
(***************************************************************************)
\* every cell of the chunks of the model
AllCells == {local_to_global(l, index) : l \in Locals, index \in ChunkIndices}

\* the positions the API is called with: the cells on both sides of the seam of the
\* two chunks, the cell above the left one, and one cell right of the right boundary
PaintPositions ==
    {<<SIZE_X - 1, 0>>, <<SIZE_X, 0>>, <<SIZE_X - 1, 1>>, <<2 * SIZE_X - 1, 0>>}

\* the texels the API is called with: empty, loose sand, water, heavy gas, stone
PaintTexels ==
    {Texel2D(0, 0), Texel2D(1, 0), Texel2D(4, 0), Texel2D(7, 20), Texel2D(12, 0)}

\* the calls of set_texel: every position with every texel and no simulation frame
\* (as the debug painter calls it), and two calls that pass a simulation frame
PaintCalls ==
    {<<g, t, NoFrame>> : g \in PaintPositions, t \in PaintTexels}
    \cup {<<<<SIZE_X - 1, 0>>, t, SomeFrame(1)>> : t \in {Texel2D(0, 0), Texel2D(1, 0)}}

\* the calls of swap_texels: the cell left of the seam with the cell across the
\* seam, the cell above it and the cell right of the right boundary, with and
\* without a simulation frame, and one call from the cell right of the boundary
SwapCalls ==
    {<<<<SIZE_X - 1, 0>>, b, f>> :
        b \in {<<SIZE_X, 0>>, <<SIZE_X - 1, 1>>, <<2 * SIZE_X - 1, 0>>},
        f \in {NoFrame, SomeFrame(1)}}
    \cup {<<<<2 * SIZE_X - 1, 0>>, <<SIZE_X, 0>>, SomeFrame(1)>>}

\* the chunks handed to add_chunk
BuiltChunks == {Chunk2D_new, new_circle}

\* the bytes drawn from fastrand::u8(0..u8::MAX): one below and one above the
\* strength of the gases
RandBytes == {0, 200}

\* the present chunk indices, in the orders the HashMap can yield them
PresentIndices(cm) == {index \in ChunkIndices : cm[index].some}

IndexOrders(cm) ==
    {o \in [1..Cardinality(PresentIndices(cm)) -> PresentIndices(cm)] :
        \A i, j \in DOMAIN o : o[i] = o[j] => i = j}

(***************************************************************************)
(* History bookkeeping                                                     *)
(***************************************************************************)
IdAt(cm, global) ==
    LET index == global_to_chunk_index(global)
    IN  IF index \in ChunkIndices /\ cm[index].some
        THEN cm[index].chunk.texels[local_to_texel_index(global_to_local(global))].id
        ELSE 0

\* the id and the density every cell holds; a cell of an absent chunk holds the default
CellsHeld(cm) ==
    [g \in AllCells |->
        IF cm[global_to_chunk_index(g)].some
        THEN <<cm[global_to_chunk_index(g)].chunk
                    .texels[local_to_texel_index(global_to_local(g))].id,
               cm[global_to_chunk_index(g)].chunk
                    .texels[local_to_texel_index(global_to_local(g))].density>>
        ELSE <<0, 0>>]

\* no record of the cells
NoCells == [g \in AllCells |-> <<0, 0>>]

\* the cells of present chunks whose id differs between cm1 and cm2
IdChanges(cm1, cm2) ==
    {g \in AllCells : cm2[global_to_chunk_index(g)].some /\ IdAt(cm1, g) # IdAt(cm2, g)}

\* the local positions where two chunks differ in a stored field / in the id
FieldDiff(c1, c2) ==
    {l \in Locals : c1.texels[local_to_texel_index(l)] # c2.texels[local_to_texel_index(l)]}

IdDiff(c1, c2) ==
    {l \in Locals :
        c1.texels[local_to_texel_index(l)].id # c2.texels[local_to_texel_index(l)].id}

NoneWritten == [any |-> {}, id |-> {}]

\* `written` after a step from cm1 to cm2 that cleaned the chunks in `cleaned` and
\* inserted the chunk of `added` (a set of at most one index) through add_chunk
WrittenAfter(cm1, cm2, cleaned, added) ==
    [index \in ChunkIndices |->
        IF ~cm2[index].some THEN NoneWritten
        ELSE IF index \in added
        THEN [any |-> {}, id |-> IdDiff(Chunk2D_new, cm2[index].chunk)]
        ELSE IF ~cm1[index].some
        THEN [any |-> FieldDiff(Chunk2D_new, cm2[index].chunk),
              id |-> IdDiff(Chunk2D_new, cm2[index].chunk)]
        ELSE LET base == IF index \in cleaned THEN NoneWritten ELSE written[index]
             IN  [any |-> base.any \cup FieldDiff(cm1[index].chunk, cm2[index].chunk),
                  id |-> base.id \cup IdDiff(cm1[index].chunk, cm2[index].chunk)]]

\* `changed` after a step from cm1 to cm2: cells of chunks that are gone are dropped
ChangedAfter(cm1, cm2) ==
    {g \in changed \cup IdChanges(cm1, cm2) : cm2[global_to_chunk_index(g)].some}

\* the sum of density over the cells holding the gas id
GasMass(cm, id) ==
    LET cells == {g \in AllCells : cm[global_to_chunk_index(g)].some /\ IdAt(cm, g) = id}
        D(g) == cm[global_to_chunk_index(g)].chunk
                    .texels[local_to_texel_index(global_to_local(g))].density
        RECURSIVE Sum(_)
        Sum(S) == IF S = {} THEN 0
                  ELSE LET g == CHOOSE h \in S : TRUE IN D(g) + Sum(S \ {g})
    IN  Sum(cells)

GasIds == {id \in KnownIds : from_id(id).form = "Gas"}

\* the cells holding the id
CellsOf(cm, id) ==
    {g \in AllCells : cm[global_to_chunk_index(g)].some /\ IdAt(cm, g) = id}

FixedSolidIds == {id \in KnownIds : from_id(id).form = "Solid" /\ ~from_id(id).gravity.some}

NoOp == [kind |-> "none", same_id |-> FALSE, tagged |-> FALSE,
         present |-> FALSE, in_bounds |-> FALSE]

IdleSim == [pc |-> "idle", indices |-> <<>>, chunk_index |-> ZERO, rect |-> NoRect,
            cells |-> <<>>, windows |-> <<>>]

\* no scenario and no call under observation
NoProbe == [kind |-> "none"]

NoEmission == [events |-> <<>>, dirty |-> [index \in ChunkIndices |-> NoRect], sent |-> <<>>,
               count |-> 0]

(***************************************************************************)
(* Init: Terrain2D::new and FrameCounter { frame: 0 }                      *)
(***************************************************************************)
Init ==
    /\ chunk_map = Terrain2D_new.chunk_map
    /\ events = <<>>
    /\ frame = 0
    /\ stage = "First"
    /\ sim = IdleSim
    /\ panic = FALSE
    /\ ops = 0
    /\ terrain_events = <<>>
    /\ emitted = NoEmission
    /\ changed = {}
    /\ unreported = {}
    /\ written = [index \in ChunkIndices |-> NoneWritten]
    /\ moved = {}
    /\ moved_twice = FALSE
    /\ last_op = NoOp
    /\ tick_pre = [fresh |-> FALSE, quiet |-> FALSE,
                   mass |-> [id \in GasIds |-> 0],
                   solids |-> [id \in FixedSolidIds |-> {}],
                   cells |-> NoCells, indices |-> {}, still |-> FALSE]
    /\ probe = NoProbe

(***************************************************************************)
(* The public API, called between the systems of a frame                   *)
(***************************************************************************)
\* a system that calls the API runs before terrain_simulation or between it and
\* emit_terrain_events, never inside either
ApiEnabled == sim.pc = "idle" /\ stage \in {"Simulation", "EventHandler"} /\ ops < MaxOps

ApiStep(T, cleaned, added, op) ==
    /\ chunk_map' = T.chunk_map
    /\ events' = T.events
    /\ ops' = ops + 1
    /\ written' = WrittenAfter(chunk_map, T.chunk_map, cleaned, added)
    /\ changed' = ChangedAfter(chunk_map, T.chunk_map)
    /\ last_op' = op
    /\ tick_pre' = [tick_pre EXCEPT !.fresh = FALSE, !.quiet = FALSE,
                                 !.cells = NoCells, !.indices = {}, !.still = FALSE]
    /\ UNCHANGED <<probe, frame, stage, sim, panic, terrain_events, emitted, unreported,
                   moved, moved_twice>>

SetTexel(global, new_texel, simulation_frame) ==
    /\ ApiEnabled
    /\ ApiStep(Terrain2D_set_texel(Terrain, global, new_texel, simulation_frame), {}, {},
               [kind |-> "set_texel",
                same_id |-> IdAt(chunk_map, global) = new_texel.id,
                tagged |-> simulation_frame.some,
                present |-> global_to_chunk(Terrain, global).some,
                in_bounds |-> is_within_boundaries(global)])

SwapTexels(from_global, to_global, simulation_frame) ==
    /\ ApiEnabled
    /\ ApiStep(swap_texels(Terrain, from_global, to_global, simulation_frame), {}, {},
               [kind |-> "swap_texels",
                same_id |-> IdAt(chunk_map, from_global) = IdAt(chunk_map, to_global),
                tagged |-> simulation_frame.some,
                present |-> /\ global_to_chunk(Terrain, from_global).some
                            /\ global_to_chunk(Terrain, to_global).some,
                in_bounds |-> /\ is_within_boundaries(from_global)
                              /\ is_within_boundaries(to_global)])

AddChunk(index, chunk) ==
    /\ ApiEnabled
    /\ ApiStep(add_chunk(Terrain, index, chunk), {}, {index},
               [NoOp EXCEPT !.kind = "add_chunk",
                            !.present = chunk_map[index].some])

RemoveChunk(index) ==
    /\ ApiEnabled
    /\ ApiStep(remove_chunk(Terrain, index), {}, {},
               [NoOp EXCEPT !.kind = "remove_chunk",
                            !.present = chunk_map[index].some])

(***************************************************************************)
(* frame_counter.rs: frame_increment (CoreStage::First)                    *)
(***************************************************************************)
\* the last frame explored: the grain scenario runs GrainMaxFrame frames
FrameCap == IF probe.kind = "grain" THEN GrainMaxFrame ELSE MaxFrame

frame_increment ==
    /\ stage = "First" /\ sim.pc = "idle" /\ frame < FrameCap
    /\ frame' = frame + 1
    /\ stage' = "Simulation"
    /\ UNCHANGED <<probe, chunk_map, events, sim, panic, ops, terrain_events, emitted, changed,
                   unreported, written, moved, moved_twice, last_op, tick_pre>>

(***************************************************************************)
(* terrain2d.rs: terrain_simulation, one step at a time                    *)
(***************************************************************************)
\* the snapshot of the chunk indices
TickBegin(indices) ==
    /\ stage = "Simulation" /\ sim.pc = "idle"
    /\ sim' = [IdleSim EXCEPT !.pc = "chunk", !.indices = indices]
    /\ moved' = {}
    /\ tick_pre' =
        [fresh |-> TRUE, quiet |-> TRUE,
         mass |-> [id \in GasIds |-> GasMass(chunk_map, id)],
         solids |-> IF tick_pre.quiet THEN tick_pre.solids
                    ELSE [id \in FixedSolidIds |-> CellsOf(chunk_map, id)],
         cells |-> CellsHeld(chunk_map),
         indices |-> {indices[i] : i \in DOMAIN indices},
         still |-> TRUE]
    /\ UNCHANGED <<probe, chunk_map, events, frame, stage, panic, ops, terrain_events, emitted,
                   changed, unreported, written, moved_twice, last_op>>

\* the head of one iteration of `for chunk_index in indices`: the refresher, the
\* snapshot of the dirty rect and mark_clean
TickChunk ==
    /\ sim.pc = "chunk" /\ sim.indices # <<>>
    /\ LET chunk_index == Head(sim.indices)
           present == index_to_chunk(Terrain, chunk_index).some
           cm1 == IF present /\ refreshed(chunk_index, frame)
                  THEN [chunk_map EXCEPT ![chunk_index].chunk = mark_all_dirty(@)]
                  ELSE chunk_map
           rect == IF present THEN cm1[chunk_index].chunk.dirty_rect ELSE NoRect
       IN  /\ chunk_map' = IF rect.some
                           THEN [cm1 EXCEPT ![chunk_index].chunk = mark_clean(@)]
                           ELSE cm1
           /\ sim' = IF rect.some
                     THEN [sim EXCEPT !.pc = "texel", !.indices = Tail(@),
                                      !.chunk_index = chunk_index, !.rect = rect,
                                      !.cells = scan_cells(rect, frame)]
                     ELSE [sim EXCEPT !.indices = Tail(@)]
           /\ written' = IF rect.some
                         THEN [written EXCEPT ![chunk_index] = NoneWritten]
                         ELSE written
    /\ UNCHANGED <<probe, events, frame, stage, panic, ops, terrain_events, emitted, changed,
                   unreported, moved, moved_twice, last_op, tick_pre>>

\* the history after a step of the tick that took the terrain to T
TickHistory(T) ==
    /\ written' = WrittenAfter(chunk_map, T.chunk_map, {}, {})
    /\ changed' = ChangedAfter(chunk_map, T.chunk_map)
    /\ moved' = moved \cup UNION {{T.swaps[i][1], T.swaps[i][2]} : i \in DOMAIN T.swaps}
    /\ tick_pre' = [tick_pre EXCEPT !.still = @ /\ IdChanges(chunk_map, T.chunk_map) = {}]
    /\ moved_twice' =
        \/ moved_twice
        \/ \E i \in DOMAIN T.swaps :
            \E a \in {T.swaps[i][1], T.swaps[i][2]} :
                LET b == IF a = T.swaps[i][1] THEN T.swaps[i][2] ELSE T.swaps[i][1]
                    \* the content the swap took from a is now at b
                    id == IdAt(T.chunk_map, b)
                IN  a \in moved /\ from_id(id).some /\ from_id(id).form # "Gas"

\* the state after a step of the tick that took the terrain to T
TickWrite(T, panicked) ==
    /\ chunk_map' = T.chunk_map
    /\ events' = T.events
    /\ panic' = (panic \/ panicked)
    /\ TickHistory(T)

\* is the texel at global skipped by the texel pass
skipped(T, global, simulation_frame) ==
    IF get_latest_simulation(T, global).some
    THEN get_latest_simulation(T, global).value = simulation_frame
    ELSE TRUE

\* one iteration of the texel pass; after the last one the windows of the
\* dispersion pass are laid out
TickTexel(r) ==
    /\ sim.pc = "texel"
    /\ TickWrite(
            IF skipped(Terrain, local_to_global(Head(sim.cells), sim.chunk_index),
                       simulation_frame_of(frame))
            THEN Terrain
            ELSE simulate_texel(Terrain,
                    local_to_global(Head(sim.cells), sim.chunk_index), frame, r),
            FALSE)
    /\ sim' = IF Tail(sim.cells) # <<>>
              THEN [sim EXCEPT !.cells = Tail(@)]
              ELSE [sim EXCEPT !.pc = "gas", !.cells = <<>>,
                        !.windows = dispersion_windows(sim.rect, frame, sim.chunk_index)]
    /\ UNCHANGED <<probe, frame, stage, ops, terrain_events, emitted, unreported, last_op>>

\* the state after disperse_gas returned res
TickGasWrite(res) == TickWrite(res.terrain, res.panic)

\* the orders the sort can leave the ids of the window in (reached with a gas only)
GasOrders(T, global_positions) ==
    IF GasIdsIn(T, global_positions) = {} THEN {<<>>}
    ELSE SortedOrders(total_densities(T, global_positions))

\* the orders the shuffle can leave valid_globals in (reached with a gas only)
GasShuffles(T, global_positions) ==
    IF GasIdsIn(T, global_positions) = {} THEN {<<>>}
    ELSE Perms(valid_globals(T, global_positions))

\* disperse_gas on one window; after the last one the loop takes the next chunk index
TickGas ==
    /\ sim.pc = "gas"
    /\ \E order \in GasOrders(Terrain, Head(sim.windows)),
          shuffled \in GasShuffles(Terrain, Head(sim.windows)) :
            TickGasWrite(disperse_gas(Terrain, Head(sim.windows), order, shuffled))
    /\ sim' = IF Tail(sim.windows) # <<>>
              THEN [sim EXCEPT !.windows = Tail(@)]
              ELSE [sim EXCEPT !.pc = "chunk", !.windows = <<>>]
    /\ UNCHANGED <<probe, frame, stage, ops, terrain_events, emitted, unreported, last_op>>

\* the loop over the indices is over
TickEnd ==
    /\ sim.pc = "chunk" /\ sim.indices = <<>>
    /\ sim' = IdleSim
    /\ stage' = "EventHandler"
    /\ UNCHANGED <<probe, chunk_map, events, frame, panic, ops, terrain_events, emitted, changed,
                   unreported, written, moved, moved_twice, last_op, tick_pre>>

(***************************************************************************)
(* terrain2d.rs: emit_terrain_events                                       *)
(***************************************************************************)
RECURSIVE DirtyEvents(_, _)
\* the TexelsUpdated events of the chunks with a dirty rect, in iteration order
DirtyEvents(cm, order) ==
    IF order = <<>> THEN <<>>
    ELSE (IF cm[Head(order)].chunk.dirty_rect.some
          THEN <<TexelsUpdated(Head(order), cm[Head(order)].chunk.dirty_rect)>>
          ELSE <<>>)
         \o DirtyEvents(cm, Tail(order))

\* a variant of emit_sent with the two loops in the other order
emit_sent_dirty_first(T, order) == DirtyEvents(T.chunk_map, order) \o T.events

\* what one call sends, given the order chunk_iter_mut yields the chunks in
emit_sent(T, order) == T.events \o DirtyEvents(T.chunk_map, order)

Covers(ev, global) ==
    /\ ev.index = global_to_chunk_index(global)
    /\ \/ ev.kind = "ChunkAdded"
       \/ ev.kind = "TexelsUpdated" /\ InRect(ev.rect, global_to_local(global))

emit_terrain_events(order) ==
    /\ stage = "EventHandler" /\ sim.pc = "idle"
    /\ LET sent == emit_sent(Terrain, order)
       IN  /\ terrain_events' = terrain_events \o sent
           /\ emitted' = [events |-> events,
                          dirty |-> [index \in ChunkIndices |->
                                        IF chunk_map[index].some
                                        THEN chunk_map[index].chunk.dirty_rect
                                        ELSE NoRect],
                          sent |-> sent,
                          count |-> emitted.count + 1]
           /\ unreported' = {g \in changed : \A k \in DOMAIN sent : ~Covers(sent[k], g)}
    /\ events' = <<>>
    /\ changed' = {}
    /\ stage' = "First"
    /\ UNCHANGED <<probe, chunk_map, frame, sim, panic, ops, written, moved, moved_twice,
                   last_op, tick_pre>>

Next ==
    \/ \E call \in PaintCalls : SetTexel(call[1], call[2], call[3])
    \/ \E call \in SwapCalls : SwapTexels(call[1], call[2], call[3])
    \/ \E index \in ChunkIndices, chunk \in BuiltChunks : AddChunk(index, chunk)
    \/ \E index \in ChunkIndices : RemoveChunk(index)
    \/ frame_increment
    \/ \E indices \in IndexOrders(chunk_map) : TickBegin(indices)
    \/ TickChunk
    \/ \E r \in RandBytes : TickTexel(r)
    \/ TickGas
    \/ TickEnd
    \/ \E order \in IndexOrders(chunk_map) : emit_terrain_events(order)

Spec == Init /\ [][Next]_vars

(***************************************************************************)
(* terrain2d.rs: terrain_simulation as one function of the terrain, the    *)
(* frame, the order `indices` of the chunk indices and the pseudorandom    *)
(* draws.  The draws are the same in every run: each fastrand::u8 yields   *)
(* the byte r, each shuffle leaves its vector as it is, and the sort       *)
(* leaves ids of equal density in the order FirstOrder picks.              *)
(***************************************************************************)
FirstOrder(T, global_positions) == CHOOSE o \in GasOrders(T, global_positions) : TRUE

RECURSIVE run_texels(_, _, _, _, _)
\* the texel pass over the cells left
run_texels(T, chunk_index, cells, frame_index, r) ==
    IF cells = <<>> THEN T
    ELSE run_texels(
            IF skipped(T, local_to_global(Head(cells), chunk_index),
                       simulation_frame_of(frame_index))
            THEN T
            ELSE simulate_texel(T, local_to_global(Head(cells), chunk_index),
                    frame_index, r),
            chunk_index, Tail(cells), frame_index, r)

RECURSIVE run_windows(_, _)
\* the dispersion pass over the windows left
run_windows(T, windows) ==
    IF windows = <<>> THEN T
    ELSE run_windows(
            disperse_gas(T, Head(windows), FirstOrder(T, Head(windows)),
                IF GasIdsIn(T, Head(windows)) = {} THEN <<>>
                ELSE valid_globals(T, Head(windows))).terrain,
            Tail(windows))

\* the passes over a chunk whose dirty rect was `rect`, after mark_clean
run_passes(T, chunk_index, rect, frame_index, r) ==
    run_windows(
        run_texels(T, chunk_index, scan_cells(rect, frame_index), frame_index, r),
        dispersion_windows(rect, frame_index, chunk_index))

\* one iteration of `for chunk_index in indices.iter()` past the refresher
run_dirty(T, chunk_index, frame_index, r) ==
    IF index_to_chunk(T, chunk_index).some
       /\ index_to_chunk(T, chunk_index).chunk.dirty_rect.some
    THEN run_passes([T EXCEPT !.chunk_map[chunk_index].chunk = mark_clean(@)],
            chunk_index, index_to_chunk(T, chunk_index).chunk.dirty_rect, frame_index, r)
    ELSE T

\* one iteration of `for chunk_index in indices.iter()`
run_chunk(T, chunk_index, frame_index, r) ==
    run_dirty(
        IF index_to_chunk(T, chunk_index).some /\ refreshed(chunk_index, frame_index)
        THEN [T EXCEPT !.chunk_map[chunk_index].chunk = mark_all_dirty(@)]
        ELSE T,
        chunk_index, frame_index, r)

RECURSIVE terrain_simulation(_, _, _, _)
terrain_simulation(T, indices, frame_index, r) ==
    IF indices = <<>> THEN T
    ELSE terrain_simulation(run_chunk(T, Head(indices), frame_index, r),
            Tail(indices), frame_index, r)

(***************************************************************************)
(* A second specification: worlds that hold gas close to the capacity of   *)
(* a texel, left by calls of set_texel before the first frame, and then    *)
(* frames without any call of the API.                                     *)
(***************************************************************************)
\* the texels the cells of the left chunk are set to: empty, stone, and a gas
\* without gravity at and just below u8::MAX
GasWorldTexels == {Texel2D(0, 0), Texel2D(12, 0), Texel2D(8, 254), Texel2D(8, 255)}

\* the cells of the left chunk, in the order they are set
GasWorldCells == <<<<0, 0>>, <<1, 0>>, <<0, 1>>, <<1, 1>>>>

RECURSIVE GasWorld(_, _)
\* the terrain after set_texel(GasWorldCells[i], t[i], None) for i = 1..k
GasWorld(t, k) ==
    IF k = 0 THEN Terrain2D_new
    ELSE Terrain2D_set_texel(GasWorld(t, k - 1), GasWorldCells[k], t[k], NoFrame)

\* the state the calls that built the terrain T leave behind
BuiltState(T) ==
    /\ chunk_map = T.chunk_map
    /\ events = T.events
    /\ frame = 0
    /\ stage = "First"
    /\ sim = IdleSim
    /\ panic = FALSE
    /\ ops = Len(GasWorldCells)
    /\ terrain_events = <<>>
    /\ emitted = NoEmission
    /\ changed = IdChanges(Terrain2D_new.chunk_map, T.chunk_map)
    /\ unreported = {}
    /\ written = [index \in ChunkIndices |->
                    IF T.chunk_map[index].some
                    THEN [any |-> FieldDiff(Chunk2D_new, T.chunk_map[index].chunk),
                          id |-> IdDiff(Chunk2D_new, T.chunk_map[index].chunk)]
                    ELSE NoneWritten]
    /\ moved = {}
    /\ moved_twice = FALSE
    /\ last_op = [NoOp EXCEPT !.kind = "set_texel", !.in_bounds = TRUE]
    /\ tick_pre = [fresh |-> FALSE, quiet |-> FALSE,
                   mass |-> [id \in GasIds |-> 0],
                   solids |-> [id \in FixedSolidIds |-> {}],
                   cells |-> NoCells, indices |-> {}, still |-> FALSE]

InitGas ==
    /\ \E t \in [1..Len(GasWorldCells) -> GasWorldTexels] : BuiltState(GasWorld(t, Len(t)))
    /\ probe = NoProbe

NextGas ==
    \/ frame_increment
    \/ \E indices \in IndexOrders(chunk_map) : TickBegin(indices)
    \/ TickChunk
    \/ \E r \in RandBytes : TickTexel(r)
    \/ TickGas
    \/ TickEnd
    \/ \E order \in IndexOrders(chunk_map) : emit_terrain_events(order)

SpecGas == InitGas /\ [][NextGas]_vars

(***************************************************************************)
(* The scenario of one grain: after `start` frames on the empty world one  *)
(* set_texel call puts a grain of a Solid material into a cell; from then  *)
(* on only the systems run.                                                *)
(***************************************************************************)
\* the Solid materials of ID_MAP the grain is made of: with gravity, and "sand"
GrainIds == {1, 2, 3, 11}

\* the cells within the boundaries
GrainCells == {g \in AllCells : is_within_boundaries(g)}

GrainWorld(cell, id) == Terrain2D_set_texel(Terrain2D_new, cell, Texel2D(id, 0), NoFrame)

\* the state the call that built the terrain T leaves behind in frame `start`
GrainState(T, start) ==
    /\ chunk_map = T.chunk_map
    /\ events = T.events
    /\ frame = start
    /\ stage = "First"
    /\ sim = IdleSim
    /\ panic = FALSE
    /\ ops = 1
    /\ terrain_events = <<>>
    /\ emitted = NoEmission
    /\ changed = IdChanges(Terrain2D_new.chunk_map, T.chunk_map)
    /\ unreported = {}
    /\ written = [index \in ChunkIndices |->
                    IF T.chunk_map[index].some
                    THEN [any |-> FieldDiff(Chunk2D_new, T.chunk_map[index].chunk),
                          id |-> IdDiff(Chunk2D_new, T.chunk_map[index].chunk)]
                    ELSE NoneWritten]
    /\ moved = {}
    /\ moved_twice = FALSE
    /\ last_op = [NoOp EXCEPT !.kind = "set_texel", !.in_bounds = TRUE]
    /\ tick_pre = [fresh |-> FALSE, quiet |-> FALSE,
                   mass |-> [id \in GasIds |-> 0],
                   solids |-> [id \in FixedSolidIds |-> {}],
                   cells |-> NoCells, indices |-> {}, still |-> FALSE]

InitGrain ==
    \E cell \in GrainCells, id \in GrainIds, start \in 0..(GrainMaxFrame - 1) :
        /\ GrainState(GrainWorld(cell, id), start)
        /\ probe = [kind |-> "grain", cell |-> cell, id |-> id, start |-> start]

NextGrain ==
    \/ frame_increment
    \/ \E indices \in IndexOrders(chunk_map) : TickBegin(indices)
    \/ TickChunk
    \/ \E r \in RandBytes : TickTexel(r)
    \/ TickGas
    \/ TickEnd
    \/ \E order \in IndexOrders(chunk_map) : emit_terrain_events(order)

SpecGrain == InitGrain /\ [][NextGrain]_vars

(***************************************************************************)
(* A third specification: single calls of functions.  The initial state    *)
(* holds the arguments of one call, the step makes the call and keeps what *)
(* it returned.                                                            *)
(***************************************************************************)
\* the gravities of ID_MAP, and none
ProbeGravities == {NoGravity, GravityDown(10), GravityDown(50), GravityDown(200), GravityUp(10)}

\* TexelBehaviour2D values: every form with every gravity; Solid ones collide
ProbeBehaviours ==
    {Behaviour(f, f = "Solid", g) : f \in {"Solid", "Liquid", "Gas"}, g \in ProbeGravities}

\* the calls of can_displace: `to` is None or Some(behaviour)
\* the behaviours of the registry
RegistryBehaviours == {from_id(id) : id \in KnownIds}

DisplaceCalls ==
    {[kind |-> "can_displace", from |-> from, to |-> to, done |-> FALSE, result |-> FALSE] :
        from \in ProbeBehaviours \cup RegistryBehaviours,
        to \in ProbeBehaviours \cup RegistryBehaviours \cup {NoBehaviour}}

\* the ids written into the chunks handed to create_collision_data: empty,
\* loose sand (collides), water (does not)
CollisionIds == {0, 1, 4}

RECURSIVE fill_chunk(_, _, _)
\* the chunk after Chunk2D::set_texel wrote ids[i] at every texel from index i on
fill_chunk(chunk, ids, i) ==
    IF i >= TexelCount THEN chunk
    ELSE fill_chunk(
            Chunk2D_set_texel(chunk, texel_index_to_local(i),
                              [DefaultTexel EXCEPT !.id = ids[i]], NoFrame).chunk,
            ids, i + 1)

\* the calls of create_collision_data: one per content of a chunk
CollisionCalls ==
    {[kind |-> "create_collision_data", chunk |-> fill_chunk(Chunk2D_new, ids, 0),
      done |-> FALSE, result |-> <<>>] :
        ids \in [TexelIndices -> CollisionIds]}

\* the frames whose tick tag is computed: the tag wraps twice
TagFrames == 0..(2 * U8_MAX + 1)

\* the calls computing the tick tags of a frame and of the frame after it
TagCalls ==
    {[kind |-> "simulation_frame", frame |-> f, done |-> FALSE, result |-> <<>>] :
        f \in TagFrames}

\* the texel simulate_texel is called on: heavy and light gas, water, loose sand
MoverTexels ==
    {Texel2D(7, 40), Texel2D(7, 20), Texel2D(7, 5), Texel2D(6, 20), Texel2D(4, 0), Texel2D(1, 0)}

\* the texel in the other cell of the mover's column
TargetTexels == {Texel2D(0, 0), Texel2D(7, 0), Texel2D(7, 5), Texel2D(6, 5), Texel2D(12, 0)}

\* the texel in the cells left and right of the mover: empty or stone
SideTexels == {Texel2D(0, 0), Texel2D(12, 0)}

\* the bytes fastrand::u8 yields for the mover: around the strength 10 of the gases
MoverBytes == {0, 9, 10, 200}

\* the terrain after set_texel wrote the mover at (1, y), the target in the other
\* cell of the column and the two sides in the mover's row
MoverWorld(y, mover, target, left, right) ==
    Terrain2D_set_texel(
        Terrain2D_set_texel(
            Terrain2D_set_texel(
                Terrain2D_set_texel(Terrain2D_new, <<1, y>>, mover, NoFrame),
                <<1, 1 - y>>, target, NoFrame),
            <<0, y>>, left, NoFrame),
        <<2, y>>, right, NoFrame)

\* the calls of simulate_texel: the terrain, the position, the frame and the byte
SimulateCalls ==
    {[kind |-> "simulate_texel",
      terrain |-> [MoverWorld(y, mover, target, left, right) EXCEPT !.events = <<>>],
      global |-> <<1, y>>, frame |-> f, r |-> r, done |-> FALSE,
      result |-> Terrain2D_new] :
        y \in {0, 1}, mover \in MoverTexels, target \in TargetTexels,
        left \in SideTexels, right \in SideTexels, f \in {1, 73}, r \in MoverBytes}

\* the dirty rects of a chunk
ScanRects ==
    {ChunkRect(corners[1], corners[2]) :
        corners \in {c \in Locals \X Locals : c[1][1] <= c[2][1] /\ c[1][2] <= c[2][2]}}

\* the frames of the first of four consecutive ticks: two cycles of the scan orders
ScanFrames == 0..7

\* the calls computing the texel passes of four consecutive ticks over a snapshot
ScanCalls ==
    {[kind |-> "scan_cells", rect |-> rect, frame |-> f, done |-> FALSE, result |-> <<>>] :
        rect \in ScanRects, f \in ScanFrames}

\* the rows and frames slide_dirs is computed for: both sides of row 0 and of the
\* frames 73 and 146, where frame / 73 changes parity
SlideRows == -3..3
SlideFrames == {0, 72, 73, 145, 146}

\* the calls computing the slide orders of a row and of the row above it
SlideCalls ==
    {[kind |-> "slide_dirs", y |-> y, frame |-> f, done |-> FALSE, result |-> <<>>] :
        y \in SlideRows, f \in SlideFrames}

\* the window disperse_gas is called on: the cells of chunk (0, 0), row by row
GasWindow == <<<<0, 0>>, <<1, 0>>, <<0, 1>>, <<1, 1>>>>

\* the texels of the window: empty, thin, dense and full gas of two ids, stone
WindowTexels ==
    {Texel2D(0, 0), Texel2D(8, 1), Texel2D(8, 3), Texel2D(8, 20), Texel2D(8, U8_MAX),
     Texel2D(7, 2), Texel2D(7, U8_MAX), Texel2D(12, 0)}

RECURSIVE WindowWorld(_, _)
\* the terrain after set_texel(GasWindow[i], t[i], None) for i = 1..k
WindowWorld(t, k) ==
    IF k = 0 THEN Terrain2D_new
    ELSE Terrain2D_set_texel(WindowWorld(t, k - 1), GasWindow[k], t[k], NoFrame)

\* the calls of disperse_gas
DisperseCalls ==
    {[kind |-> "disperse_gas",
      terrain |-> [WindowWorld(t, Len(GasWindow)) EXCEPT !.events = <<>>],
      done |-> FALSE, result |-> [terrain |-> Terrain2D_new, panic |-> FALSE]] :
        t \in [1..Len(GasWindow) -> WindowTexels]}

\* the chunk indices the refresher is asked about, negative ones included
RefreshIndices == {<<x, y>> : x \in {-11, -1, 0, 1, 9, 10}, y \in {-1, 0, 1, 9}}

\* the frame the hundred ticks start at
RefreshStarts == {0, 57, 100}

\* the number of consecutive ticks, the modulus of the refresher
REFRESH_TICKS == 100

\* the calls of the refresher of terrain_simulation, tick after tick
RefreshCalls ==
    {[kind |-> "refresher", chunk_index |-> ci, start |-> f, done |-> FALSE, result |-> {}] :
        ci \in RefreshIndices, f \in RefreshStarts}

\* the positions handed to a chunk directly: the chunk and one cell around it
AccessLocals == {<<x, y>> : x \in -1..SIZE_X, y \in -1..SIZE_Y}

\* the global positions handed to Terrain2D: two chunks each way around the origin
AccessGlobals == {<<x, y>> : x \in (-2 * SIZE_X)..(2 * SIZE_X), y \in (-2 * SIZE_Y)..(2 * SIZE_Y)}

\* the calls of Chunk2D::set_texel and Chunk2D::get_texel, made directly with a local
\* position or by an operation of Terrain2D with a global one
AccessCalls ==
    {[kind |-> "chunk_access", via |-> via, position |-> p, chunk |-> chunk,
      texel |-> t, done |-> FALSE,
      result |-> [panic |-> FALSE, chunk |-> chunk, got |-> NoTexel]] :
        via \in {"Chunk2D", "Terrain2D"}, p \in AccessLocals \cup AccessGlobals,
        chunk \in BuiltChunks, t \in {Texel2D(1, 0), Texel2D(6, 20)}}

\* the frames of the tick that stamps a cell, and how many frames later the texel
\* pass meets the cell again
StampFrames == {1, 2, U8_MAX}
StampGaps == {1, 2, U8_MAX - 1, U8_MAX, U8_MAX + 1, 2 * U8_MAX}

\* the calls of the skip test of the texel pass on a cell a tick has stamped
SkipCalls ==
    {[kind |-> "skip_test", global |-> g, stamped |-> f, frame |-> f + d,
      done |-> FALSE, result |-> FALSE] :
        g \in {<<0, 0>>, <<SIZE_X, 1>>}, f \in StampFrames, d \in StampGaps}

\* the texels written into one chunk: empty, sand and stone (with collision), a gas
WriteTexels == {Texel2D(0, 0), Texel2D(1, 0), Texel2D(12, 0), Texel2D(6, 20)}

\* a run of Chunk2D::set_texel calls on one chunk, starting from Chunk2D::new()
WriteCalls ==
    {[kind |-> "chunk_writes", chunk |-> Chunk2D_new, writes |-> 0, done |-> FALSE,
      result |-> <<>>]}

\* the state before a call: the world of Init
FnState(call) ==
    /\ chunk_map = Terrain2D_new.chunk_map
    /\ events = <<>>
    /\ frame = 0
    /\ stage = "First"
    /\ sim = IdleSim
    /\ panic = FALSE
    /\ ops = 0
    /\ terrain_events = <<>>
    /\ emitted = NoEmission
    /\ changed = {}
    /\ unreported = {}
    /\ written = [index \in ChunkIndices |-> NoneWritten]
    /\ moved = {}
    /\ moved_twice = FALSE
    /\ last_op = NoOp
    /\ tick_pre = [fresh |-> FALSE, quiet |-> FALSE,
                   mass |-> [id \in GasIds |-> 0],
                   solids |-> [id \in FixedSolidIds |-> {}],
                   cells |-> NoCells, indices |-> {}, still |-> FALSE]
    /\ probe = call

\* the call returned
FnReturn(result) ==
    /\ probe' = [probe EXCEPT !.done = TRUE, !.result = result]
    /\ UNCHANGED <<chunk_map, events, frame, stage, sim, panic, ops, terrain_events,
                   emitted, changed, unreported, written, moved, moved_twice, last_op,
                   tick_pre>>

CallCanDisplace ==
    /\ probe.kind = "can_displace" /\ ~probe.done
    /\ FnReturn(can_displace(probe.from, probe.to))

CallCreateCollisionData ==
    /\ probe.kind = "create_collision_data" /\ ~probe.done
    /\ FnReturn(create_collision_data(probe.chunk))

\* `let simulation_frame = ...` of the tick of probe.frame and, after
\* frame_increment, of the next tick
CallSimulationFrame ==
    /\ probe.kind = "simulation_frame" /\ ~probe.done
    /\ FnReturn(<<simulation_frame_of(probe.frame), simulation_frame_of(probe.frame + 1)>>)

CallSimulateTexel ==
    /\ probe.kind = "simulate_texel" /\ ~probe.done
    /\ FnReturn(simulate_texel(probe.terrain, probe.global, probe.frame, probe.r))

\* y_range and x_range of the ticks of probe.frame and of the three frames after it
CallScanCells ==
    /\ probe.kind = "scan_cells" /\ ~probe.done
    /\ FnReturn([k \in 1..4 |-> scan_cells(probe.rect, probe.frame + k - 1)])

\* `dirs` of simulate_texel for a texel of row probe.y and for one of the row above
CallSlideDirs ==
    /\ probe.kind = "slide_dirs" /\ ~probe.done
    /\ FnReturn(<<slide_dirs(probe.frame, <<0, probe.y>>),
                  slide_dirs(probe.frame, <<0, probe.y + 1>>)>>)

\* disperse_gas on the window, for every outcome of the sort and of the shuffle
CallDisperseGas ==
    /\ probe.kind = "disperse_gas" /\ ~probe.done
    /\ \E order \in GasOrders(probe.terrain, GasWindow),
          shuffled \in GasShuffles(probe.terrain, GasWindow) :
            FnReturn(disperse_gas(probe.terrain, GasWindow, order, shuffled))

\* the refresher of `for chunk_index in indices.iter()` on a clean chunk
refresher(chunk, chunk_index, frame_index) ==
    IF refreshed(chunk_index, frame_index) THEN mark_all_dirty(chunk) ELSE chunk

\* the frames among REFRESH_TICKS consecutive ones in which the refresher marks the
\* chunk fully dirty
CallRefresher ==
    /\ probe.kind = "refresher" /\ ~probe.done
    /\ FnReturn({f \in probe.start..(probe.start + REFRESH_TICKS - 1) :
            refresher(Chunk2D_new, probe.chunk_index, f).dirty_rect
                = mark_all_dirty(Chunk2D_new).dirty_rect})

\* Chunk2D::set_texel with its `expect("Texel index out of range")`: [panic, chunk]
Chunk2D_set_texel_checked(chunk, position, new_texel, simulation_frame) ==
    IF InChunk(position)
    THEN [panic |-> FALSE,
          chunk |-> Chunk2D_set_texel(chunk, position, new_texel, simulation_frame).chunk]
    ELSE [panic |-> TRUE, chunk |-> chunk]

\* set_texel and get_texel of a chunk at a position: the position itself, or the
\* global_to_local of it that the operations of Terrain2D hand to the chunk
CallChunkAccess ==
    /\ probe.kind = "chunk_access" /\ ~probe.done
    /\ LET local == IF probe.via = "Terrain2D" THEN global_to_local(probe.position)
                    ELSE probe.position
           set == Chunk2D_set_texel_checked(probe.chunk, local, probe.texel, NoFrame)
       IN  FnReturn([panic |-> set.panic, chunk |-> set.chunk,
                     got |-> Chunk2D_get_texel(probe.chunk, local)])

\* the skip test of the texel pass in the tick of probe.frame, on a cell that the
\* tick of probe.stamped wrote with its tag and nothing wrote since
CallSkipTest ==
    /\ probe.kind = "skip_test" /\ ~probe.done
    /\ FnReturn(skipped(
            Terrain2D_set_texel(Terrain2D_new, probe.global, Texel2D(1, 0),
                SomeFrame(simulation_frame_of(probe.stamped))),
            probe.global, simulation_frame_of(probe.frame)))

\* one more Chunk2D::set_texel on the chunk of the run
CallChunkSetTexel ==
    /\ probe.kind = "chunk_writes" /\ probe.writes < MaxWrites
    /\ \E position \in Locals, new_texel \in WriteTexels,
          simulation_frame \in {NoFrame, SomeFrame(1)} :
            probe' = [probe EXCEPT
                !.chunk = Chunk2D_set_texel(@, position, new_texel, simulation_frame).chunk,
                !.writes = @ + 1,
                !.done = TRUE]
    /\ UNCHANGED <<chunk_map, events, frame, stage, sim, panic, ops, terrain_events,
                   emitted, changed, unreported, written, moved, moved_twice, last_op,
                   tick_pre>>

InitFn ==
    \E call \in DisplaceCalls \cup CollisionCalls \cup TagCalls \cup SimulateCalls
                \cup ScanCalls \cup SlideCalls \cup DisperseCalls \cup RefreshCalls
                \cup AccessCalls \cup SkipCalls \cup WriteCalls :
        FnState(call)

NextFn ==
    \/ CallCanDisplace
    \/ CallCreateCollisionData
    \/ CallSimulationFrame
    \/ CallSimulateTexel
    \/ CallScanCells
    \/ CallSlideDirs
    \/ CallDisperseGas
    \/ CallRefresher
    \/ CallChunkAccess
    \/ CallSkipTest
    \/ CallChunkSetTexel

SpecFn == InitFn /\ [][NextFn]_vars

(***************************************************************************)
(* Properties                                                              *)
(***************************************************************************)
\* the stored texel of a cell of a present chunk
TexelAt(index, l) == chunk_map[index].chunk.texels[local_to_texel_index(l)]

BoolBit(b) == IF b THEN 1 ELSE 0

C2_AtMostOneMovePerTick == ~moved_twice

\* C3: when a tick ends that no call of the API interrupted, every gas id has the
\* sum of density over the world that it had when the tick began.
C3_GasMassConserved ==
    (stage = "EventHandler" /\ tick_pre.fresh /\ ~panic) =>
        \A id \in GasIds : GasMass(chunk_map, id) = tick_pre.mass[id]

\* C4: while ticks run with no call of the API in between, every id that is Solid
\* without gravity occupies exactly the cells it occupied before the first of
\* these ticks.
C4_FixedSolidsStay ==
    tick_pre.quiet =>
        \A id \in FixedSolidIds : CellsOf(chunk_map, id) = tick_pre.solids[id]

\* a tick has ended in which a swap moved content while a fixed solid was in the world
C4_Witness ==
    /\ tick_pre.quiet
    /\ stage = "EventHandler"
    /\ moved # {}
    /\ \E id \in FixedSolidIds : CellsOf(chunk_map, id) # {}

\* C5, as the code keeps it: in every chunk, every cell whose id changed since the
\* chunk's last mark_clean lies inside the chunk's dirty_rect.
C5_IdWritesAreDirty ==
    \A index \in ChunkIndices :
        chunk_map[index].some =>
            \A l \in written[index].id : InRect(chunk_map[index].chunk.dirty_rect, l)

\* C5 as stated: every cell of which any stored field changed since the chunk's
\* last mark_clean lies inside the chunk's dirty_rect.
C5_AllWritesAreDirty ==
    \A index \in ChunkIndices :
        chunk_map[index].some =>
            \A l \in written[index].any : InRect(chunk_map[index].chunk.dirty_rect, l)

\* inside a tick, a chunk has been cleaned and written again
C5_Witness ==
    /\ sim.pc = "gas"
    /\ written[sim.chunk_index].id # {}
    /\ chunk_map[sim.chunk_index].some
    /\ chunk_map[sim.chunk_index].chunk.dirty_rect.some

\* C6: every cell whose id changed since the previous emission is covered by an
\* event of the next emission: a TexelsUpdated of its chunk whose rect contains it,
\* or a ChunkAdded of its chunk.
C6_EveryChangeReported == unreported = {}

\* C7, as the code keeps it: after a ChunkRemoved(index) no TexelsUpdated(index, _)
\* is emitted unless a ChunkAdded(index) is emitted in between.
C7_RemovedUntilAdded ==
    \A i, j \in DOMAIN terrain_events :
        (/\ i < j
         /\ terrain_events[i].kind = "ChunkRemoved"
         /\ terrain_events[j].kind = "TexelsUpdated"
         /\ terrain_events[j].index = terrain_events[i].index)
        => \E k \in (i + 1)..(j - 1) :
                terrain_events[k] = ChunkAdded(terrain_events[i].index)

\* C7 as stated: no event for an index is emitted after a ChunkRemoved of that index.
C7_RemovedIsLast ==
    \A i, j \in DOMAIN terrain_events :
        (i < j /\ terrain_events[i].kind = "ChunkRemoved")
        => terrain_events[j].index # terrain_events[i].index

\* a chunk was removed, created again and reported as updated
C7_Witness ==
    \E i, j \in DOMAIN terrain_events :
        /\ i < j
        /\ terrain_events[i].kind = "ChunkRemoved"
        /\ terrain_events[j].kind = "TexelsUpdated"
        /\ terrain_events[j].index = terrain_events[i].index

\* C8: every emitted TexelsUpdated(index, _) is preceded by an emitted
\* ChunkAdded(index).
C8_AddedBeforeUpdated ==
    \A j \in DOMAIN terrain_events :
        terrain_events[j].kind = "TexelsUpdated"
        => \E i \in 1..(j - 1) : terrain_events[i] = ChunkAdded(terrain_events[j].index)

\* the only call of the API was a set_texel in the left chunk, and a TexelsUpdated
\* of the right chunk was emitted: the right chunk was created by the tick
C8_Witness ==
    /\ ops = 1
    /\ last_op.kind = "set_texel"
    /\ terrain_events # <<>>
    /\ terrain_events[1] = ChunkAdded(<<0, 0>>)
    /\ \E j \in DOMAIN terrain_events :
        terrain_events[j].kind = "TexelsUpdated" /\ terrain_events[j].index = <<1, 0>>

\* the events of the latest emission that follow the drained queue
SentAfterQueue == SubSeq(emitted.sent, Len(emitted.events) + 1, Len(emitted.sent))

\* C9: an emission sends the queued events in their order, then exactly one
\* TexelsUpdated(index, dirty_rect) for every chunk with a dirty_rect and nothing
\* for the other chunks, and leaves the queue empty.
C9_EmissionDrainsAndReports ==
    emitted.count > 0 =>
        /\ Len(emitted.sent) >= Len(emitted.events)
        /\ SubSeq(emitted.sent, 1, Len(emitted.events)) = emitted.events
        /\ \A index \in ChunkIndices :
            LET at == {k \in DOMAIN SentAfterQueue : SentAfterQueue[k].index = index}
            IN  IF emitted.dirty[index].some
                THEN /\ Cardinality(at) = 1
                     /\ \A k \in at :
                            SentAfterQueue[k] = TexelsUpdated(index, emitted.dirty[index])
                ELSE at = {}
        /\ Len(terrain_events) >= Len(emitted.sent)
        /\ SubSeq(terrain_events, Len(terrain_events) - Len(emitted.sent) + 1,
                  Len(terrain_events)) = emitted.sent
        /\ stage = "First" => events = <<>>

\* an emission has just drained two queued events, reported a dirty chunk and
\* passed over a clean one
C9_Witness ==
    /\ stage = "First"
    /\ emitted.count > 0
    /\ Len(emitted.events) >= 2
    /\ \E index \in ChunkIndices : emitted.dirty[index].some
    /\ \E index \in ChunkIndices : chunk_map[index].some /\ ~emitted.dirty[index].some

\* the step is a set_texel on a present chunk with the id the cell already holds
SameIdSet ==
    /\ ops' = ops + 1
    /\ last_op'.kind = "set_texel"
    /\ last_op'.same_id
    /\ last_op'.present

\* C10, as the code keeps it: a set_texel with the id the cell already holds changes
\* no id, no neighbour_mask and no dirty_rect, creates or removes no chunk and
\* queues no event (it may store last_simulation and density).
C10_SameIdKeepsIdMaskRect ==
    [][SameIdSet =>
        /\ events' = events
        /\ \A index \in ChunkIndices :
            /\ chunk_map'[index].some = chunk_map[index].some
            /\ chunk_map'[index].chunk.dirty_rect = chunk_map[index].chunk.dirty_rect
            /\ \A i \in TexelIndices :
                /\ chunk_map'[index].chunk.texels[i].id = chunk_map[index].chunk.texels[i].id
                /\ chunk_map'[index].chunk.texels[i].neighbour_mask
                    = chunk_map[index].chunk.texels[i].neighbour_mask]_vars

\* C10 as stated: a set_texel with the id the cell already holds changes no field of
\* any texel, no dirty_rect, no chunk and no event.
C10_SameIdIsNoOp ==
    [][SameIdSet => (chunk_map' = chunk_map /\ events' = events)]_vars

\* the latest call was a set_texel inside the boundaries, with a simulation frame and
\* the id the cell already held
C10_Witness ==
    /\ last_op.kind = "set_texel"
    /\ last_op.same_id
    /\ last_op.present
    /\ last_op.tagged
    /\ last_op.in_bounds

\* Option<i32> values for a boundary: none, and two positions
BoundaryChoices == {[some |-> FALSE, value |-> 0], SomeI32(0), SomeI32(SIZE_X)}

\* the positions the boundaries are tried on: from one cell outside the two chunks
ProbePositions == {<<x, y>> : x \in (-1)..(2 * SIZE_X), y \in (-1)..SIZE_Y}

\* every provided boundary holds at global
RespectsBoundaries(top, bottom, left, right, global) ==
    /\ top.some => global[2] < top.value
    /\ bottom.some => global[2] >= bottom.value
    /\ left.some => global[1] >= left.value
    /\ right.some => global[1] < right.value

\* the step is a call of set_texel at a position that is not within the boundaries
OutOfBoundsSet ==
    /\ ops' = ops + 1
    /\ last_op'.kind = "set_texel"
    /\ ~last_op'.in_bounds

\* C11: a position is within the boundaries iff every provided boundary holds at it
\* (x >= left, x < right, y >= bottom, y < top), and a set_texel at a position that
\* is not within the boundaries changes no chunk, no texel, no dirty_rect and no
\* queued event.
C11_OutOfBoundsWriteDropped ==
    /\ \A top, bottom, left, right \in BoundaryChoices, global \in ProbePositions :
            within_boundaries(top, bottom, left, right, global)
                <=> RespectsBoundaries(top, bottom, left, right, global)
    /\ [][OutOfBoundsSet => (chunk_map' = chunk_map /\ events' = events)]_vars

\* the latest call was a set_texel right of the right boundary, at a cell of a
\* present chunk
C11_Witness ==
    /\ last_op.kind = "set_texel"
    /\ ~last_op.in_bounds
    /\ last_op.present

\* the positions of ProbePositions that are not within the boundaries of the world
OutsidePositions == {g \in ProbePositions : ~is_within_boundaries(g)}

\* what the chunk map stores at global: None where no chunk exists
StoredAt(global) ==
    LET index == global_to_chunk_index(global)
    IN  IF index \in ChunkIndices /\ chunk_map[index].some
        THEN SomeTexel(TexelAt(index,
                <<global[1] - index[1] * SIZE_X, global[2] - index[2] * SIZE_Y>>))
        ELSE NoTexel

\* C12, as the code keeps it: reading a position that is not within the boundaries
\* returns the behaviour OUT_OF_BOUNDS together with the texel the chunk map stores
\* at the position (None where no chunk exists).
C12_OutsideReadsAsWall ==
    \A g \in OutsidePositions :
        /\ get_texel_behaviour(Terrain, g).behaviour = OUT_OF_BOUNDS
        /\ get_texel_behaviour(Terrain, g).texel = StoredAt(g)

\* C12 as stated: reading a position that is not within the boundaries returns an
\* empty texel (no texel, or a texel with an empty id) and the behaviour
\* OUT_OF_BOUNDS, whatever a chunk stores at the position.
C12_OutsideReadsEmpty ==
    \A g \in OutsidePositions :
        /\ get_texel_behaviour(Terrain, g).behaviour = OUT_OF_BOUNDS
        /\ is_empty(UnwrapOrDefault(get_texel_behaviour(Terrain, g).texel).id)

\* a chunk stores a texel that is not empty at a position right of the right boundary
C12_Witness ==
    \E g \in OutsidePositions : StoredAt(g).some /\ ~is_empty(StoredAt(g).texel.id)

\* the offset, in chunk indices, of a copy of the world that lies at negative
\* coordinates
ShiftIndex == <<-2, -1>>

\* the terrain with every chunk moved by ShiftIndex
ShiftedTerrain ==
    [chunk_map |-> [index \in {VAdd(i, ShiftIndex) : i \in ChunkIndices} |->
                        chunk_map[VAdd(index, VNeg(ShiftIndex))]],
     events |-> events, swaps |-> <<>>]

\* the chunk indices read: those of the terrain and two that hold no chunk
ReadIndices(T) == DOMAIN T.chunk_map \cup {<<-1, 0>>, <<0, 1>>}

\* what get_texel is to return for the cell l of the chunk index c
ExpectedTexel(T, c, l) ==
    IF c \in DOMAIN T.chunk_map /\ T.chunk_map[c].some
    THEN SomeTexel(T.chunk_map[c].chunk.texels[l[2] * SIZE_X + l[1]])
    ELSE NoTexel

\* C13: get_texel(global) is None iff no chunk exists at the chunk index owning
\* global, and is the texel stored for the cell otherwise, in the world and in a copy
\* of the world at negative coordinates.
C13_GetTexelReadsOwningChunk ==
    \A T \in {Terrain, ShiftedTerrain} :
        \A c \in ReadIndices(T), l \in Locals :
            LET global == <<c[1] * SIZE_X + l[1], c[2] * SIZE_Y + l[2]>>
            IN  /\ get_texel(T, global) = ExpectedTexel(T, c, l)
                /\ get_texel(T, global).some <=> (c \in DOMAIN T.chunk_map /\ T.chunk_map[c].some)

\* one chunk exists and holds material in its last cell, the other chunk is absent
C13_Witness ==
    /\ chunk_map[<<1, 0>>].some
    /\ ~chunk_map[<<0, 0>>].some
    /\ \E l \in Locals : l # ZERO /\ ~is_empty(TexelAt(<<1, 0>>, l).id)

\* the payload (id, density) a read of global yields in the chunk map cm
PayloadAt(cm, global) ==
    UnwrapOrDefault(get_texel([chunk_map |-> cm, events |-> <<>>, swaps |-> <<>>], global))

\* the cell at global exists in cm and carries the simulation frame
StampedAt(cm, global, simulation_frame) ==
    get_latest_simulation([chunk_map |-> cm, events |-> <<>>, swaps |-> <<>>], global)
        = simulation_frame

\* the step exchanged the payloads of a and b and stamped both with the frame, if any
Exchanged(a, b, simulation_frame) ==
    /\ PayloadAt(chunk_map', a) = PayloadAt(chunk_map, b)
    /\ PayloadAt(chunk_map', b) = PayloadAt(chunk_map, a)
    /\ simulation_frame.some =>
        /\ StampedAt(chunk_map', a, simulation_frame)
        /\ StampedAt(chunk_map', b, simulation_frame)

\* the step is a call of swap_texels
SwapStep == ops' = ops + 1 /\ last_op'.kind = "swap_texels"

\* C14, as the code keeps it: swap_texels(a, b, tag) on two distinct positions that
\* are both within the boundaries leaves a with the payload b had, b with the
\* payload a had, and both with last_simulation = tag when a tag is given.
C14_SwapInsideExchanges ==
    [][SwapStep =>
        \A call \in SwapCalls :
            (/\ SwapTexels(call[1], call[2], call[3])
             /\ is_within_boundaries(call[1])
             /\ is_within_boundaries(call[2]))
            => Exchanged(call[1], call[2], call[3])]_vars

\* C14 as stated: swap_texels(a, b, tag) on any two distinct positions leaves a with
\* the payload b had, b with the payload a had, and both with last_simulation = tag.
C14_SwapExchanges ==
    [][SwapStep =>
        \A call \in SwapCalls :
            SwapTexels(call[1], call[2], call[3])
            => Exchanged(call[1], call[2], call[3])]_vars

\* the latest call was a swap_texels with a simulation frame of two cells within the
\* boundaries that held different ids
C14_Witness ==
    /\ last_op.kind = "swap_texels"
    /\ last_op.in_bounds
    /\ last_op.tagged
    /\ ~last_op.same_id
    /\ \E g \in AllCells : ~is_empty(IdAt(chunk_map, g))

\* the cell at global belongs to a chunk of cm and lies in its dirty_rect
DirtyAt(cm, global) ==
    LET index == global_to_chunk_index(global)
    IN  /\ index \in ChunkIndices
        /\ cm[index].some
        /\ InRect(cm[index].chunk.dirty_rect, global_to_local(global))

\* a chunk of cm owns the cell at global
ChunkExistsAt(cm, global) ==
    /\ global_to_chunk_index(global) \in ChunkIndices
    /\ cm[global_to_chunk_index(global)].some

\* the step is a call of add_chunk or remove_chunk, which replace whole chunks
ChunkStep == ops' = ops + 1 /\ last_op'.kind \in {"add_chunk", "remove_chunk"}

\* the chunk owning the neighbour n of the cell g existed when set_texel changed g
\* in this step: it existed before the step, or it is the chunk of g itself, and
\* it exists after the step
NeighbourChunkExisted(g, n) ==
    /\ ChunkExistsAt(chunk_map', n)
    /\ \/ ChunkExistsAt(chunk_map, n)
       \/ global_to_chunk_index(n) = global_to_chunk_index(g)

\* C15: after every step in which set_texel changed the id of a cell (a call of
\* set_texel or swap_texels, or a step of the tick), the cell lies in the dirty_rect
\* of its chunk and each of its four neighbours whose chunk existed at the call lies
\* in the dirty_rect of that chunk, also when that is the adjacent chunk.
C15_ChangeDirtiesNeighbours ==
    [][~ChunkStep =>
        \A g \in AllCells :
            (IdAt(chunk_map, g) # IdAt(chunk_map', g) /\ ChunkExistsAt(chunk_map', g))
            => /\ DirtyAt(chunk_map', g)
               /\ \A k \in 1..4 :
                    NeighbourChunkExisted(g, VAdd(g, NEIGHBOUR_OFFSET_VECTORS[k]))
                    => DirtyAt(chunk_map', VAdd(g, NEIGHBOUR_OFFSET_VECTORS[k]))]_vars

\* the latest call was a set_texel that changed the id of a cell of a present chunk
\* beside the seam, and both chunks exist and are dirty
C15_Witness ==
    /\ last_op.kind = "set_texel"
    /\ ~last_op.same_id
    /\ last_op.in_bounds
    /\ last_op.present
    /\ \A index \in ChunkIndices :
        chunk_map[index].some /\ chunk_map[index].chunk.dirty_rect.some

\* the events the step appended to the queue (the queue only grows in the step)
QueuedInStep == SubSeq(events', Len(events) + 1, Len(events'))

\* the step appended to the queue
QueueGrew ==
    /\ Len(events') >= Len(events)
    /\ SubSeq(events', 1, Len(events)) = events

\* the step is a call of add_chunk, or a set_texel that the API or the tick made at
\* a position within the boundaries (swap_texels and the tick write through
\* set_texel)
CreatingStep ==
    \/ /\ ops' = ops + 1
       /\ \/ last_op'.kind = "add_chunk"
          \/ last_op'.kind = "set_texel" /\ last_op'.in_bounds
          \/ last_op'.kind = "swap_texels"
    \/ ops' = ops /\ sim.pc \in {"texel", "gas"}

\* C16: a chunk index gets a chunk only in a step that calls add_chunk or set_texel,
\* and that step queues exactly one ChunkAdded(index); it loses its chunk only in a
\* call of remove_chunk, which queues exactly one ChunkRemoved(index).
C16_LifecycleQueuesEvents ==
    [][\A index \in ChunkIndices :
        /\ (~chunk_map[index].some /\ chunk_map'[index].some)
            => /\ CreatingStep
               /\ QueueGrew
               /\ Cardinality({k \in DOMAIN QueuedInStep :
                                QueuedInStep[k] = ChunkAdded(index)}) = 1
        /\ (chunk_map[index].some /\ ~chunk_map'[index].some)
            => /\ ops' = ops + 1
               /\ last_op'.kind = "remove_chunk"
               /\ events' = Append(events, ChunkRemoved(index))]_vars

\* the only chunk of the world, created since the latest emission, has just been
\* removed
C16_Witness ==
    /\ last_op.kind = "remove_chunk"
    /\ last_op.present
    /\ \E index \in ChunkIndices :
        /\ ~chunk_map[index].some
        /\ events = <<ChunkAdded(index), ChunkRemoved(index)>>
    /\ \A index \in ChunkIndices : ~chunk_map[index].some

\* the payloads of the cells of the world
WorldPayloads(T) == [g \in AllCells |-> PayloadAt(T.chunk_map, g)]

\* C17: two runs of the tick that start from the same terrain, with the same frame
\* index and the same pseudorandom draws, end with the same payload in every cell,
\* whatever order the chunk map yields its chunk indices in.
C17_TickIgnoresChunkOrder ==
    (stage = "Simulation" /\ sim.pc = "idle") =>
        \A r \in RandBytes :
            \A o1, o2 \in IndexOrders(chunk_map) :
                WorldPayloads(terrain_simulation(Terrain, o1, frame, r))
                    = WorldPayloads(terrain_simulation(Terrain, o2, frame, r))

\* C18: can_displace(from, to) is true when `to` is absent; when both have gravity it
\* is true iff the directions oppose or from's strength is strictly greater, whatever
\* the form of `to`; when one of them has no gravity it is true iff `to` is not Solid
C18_CanDisplaceByGravity ==
    (probe.kind = "can_displace" /\ probe.done) =>
        probe.result =
            IF ~probe.to.some THEN TRUE
            ELSE IF probe.from.gravity.some /\ probe.to.gravity.some
                 THEN \/ probe.from.gravity.dir # probe.to.gravity.dir
                      \/ probe.from.gravity.strength > probe.to.gravity.strength
                 ELSE probe.to.form # "Solid"

\* C18 as stated: false whenever the form of `to` is Solid
C18_SolidNeverDisplaced ==
    (probe.kind = "can_displace" /\ probe.done) =>
        /\ ~probe.to.some => probe.result
        /\ (probe.to.some /\ probe.to.form = "Solid") => ~probe.result
        /\ (probe.to.some /\ probe.to.form # "Solid") =>
            /\ (probe.from.gravity.some /\ probe.to.gravity.some
                    /\ probe.from.gravity.dir = probe.to.gravity.dir) =>
                (probe.result <=>
                    probe.from.gravity.strength > probe.to.gravity.strength)
            /\ (probe.from.gravity.some /\ probe.to.gravity.some
                    /\ probe.from.gravity.dir # probe.to.gravity.dir) => probe.result
            /\ ~probe.to.gravity.some => probe.result

\* a mover was tested against a Solid whose gravity opposes its own, and may displace it
C18_Witness ==
    /\ probe.kind = "can_displace" /\ probe.done
    /\ probe.to.some /\ probe.to.form = "Solid"
    /\ probe.from.gravity.some /\ probe.to.gravity.some
    /\ probe.from.gravity.dir # probe.to.gravity.dir
    /\ probe.result

GrainTicks == (IF stage = "Simulation" THEN frame - 1 ELSE frame) - probe.start

\* between two ticks the grain is the only material of the world and lies `fallen`
\* cells below the cell it was placed in, or on the floor
GrainFell(fallen) ==
    \A g \in AllCells :
        IdAt(chunk_map, g) =
            IF g = <<probe.cell[1], IF probe.cell[2] > fallen THEN probe.cell[2] - fallen ELSE 0>>
            THEN probe.id
            ELSE 0

CircleReturned ==
    probe.kind = "create_collision_data" /\ probe.done /\ probe.chunk = new_circle

C22_TickTagRange ==
    (probe.kind = "simulation_frame" /\ probe.done) =>
        /\ probe.result[1] \in 1..U8_MAX
        /\ probe.result[2] \in 1..U8_MAX
        /\ probe.result[1] # probe.result[2]

\* the tag of a frame that ends a cycle of 255 frames, followed by the first tag
C22_Witness ==
    /\ probe.kind = "simulation_frame" /\ probe.done
    /\ probe.frame % U8_MAX = U8_MAX - 1
    /\ probe.result = <<U8_MAX, 1>>

\* the cells of the chunks that are not within the boundaries
OutsideCells == {g \in AllCells : ~is_within_boundaries(g)}

\* the cells of the chunks within the boundaries
InsideCells == {g \in AllCells : is_within_boundaries(g)}

RECURSIVE DensitySum(_, _)
\* the sum of the densities cm stores in the cells S
DensitySum(cm, S) ==
    IF S = {} THEN 0
    ELSE PayloadAt(cm, CHOOSE g \in S : TRUE).density
            + DensitySum(cm, S \ {CHOOSE g \in S : TRUE})

\* the material of the id within the boundaries: the density of a gas, the number of
\* cells otherwise
InsideAmount(cm, id) ==
    IF from_id(id).form = "Gas"
    THEN DensitySum(cm, {g \in InsideCells : PayloadAt(cm, g).id = id})
    ELSE Cardinality({g \in InsideCells : PayloadAt(cm, g).id = id})

GravPos ==
    VAdd(probe.global,
         GravityVector(from_id(PayloadAt(probe.terrain.chunk_map, probe.global).id).gravity))

\* the call of simulate_texel was made on a gas with gravity whose neighbour in the
\* direction of gravity holds the same id
GasOverSameId ==
    /\ probe.kind = "simulate_texel" /\ probe.done
    /\ from_id(PayloadAt(probe.terrain.chunk_map, probe.global).id).form = "Gas"
    /\ from_id(PayloadAt(probe.terrain.chunk_map, probe.global).id).gravity.some
    /\ PayloadAt(probe.terrain.chunk_map, GravPos).id
        = PayloadAt(probe.terrain.chunk_map, probe.global).id

\* the density the call added to the cell at grav_pos
DensityMoved ==
    PayloadAt(probe.result.chunk_map, GravPos).density
        - PayloadAt(probe.terrain.chunk_map, GravPos).density

\* C24, as the code keeps it: simulate_texel calls transfer_density after the failed
\* fall and again after each failed slide, so one call on a gas of strength g moves
\* at most min(3 * g, from.density, 255 - to.density, max(25, to.density) - to.density)
\* into the same-id cell in its gravity direction, densities taken before the call
C24_TransferBoundedPerCall ==
    GasOverSameId =>
        DensityMoved <=
            Min2(Min2(Min2(3 * gravity_abs(from_id(PayloadAt(probe.terrain.chunk_map,
                                                            probe.global).id).gravity),
                           PayloadAt(probe.terrain.chunk_map, probe.global).density),
                      U8_MAX - PayloadAt(probe.terrain.chunk_map, GravPos).density),
                 Max2(MAX_TARGET_DENSITY, PayloadAt(probe.terrain.chunk_map, GravPos).density)
                    - PayloadAt(probe.terrain.chunk_map, GravPos).density)

\* C24 as stated: one call moves at most min(g, from.density, 255 - to.density, 25)
C24_TransferBoundedByStrength ==
    GasOverSameId =>
        DensityMoved <=
            Min2(Min2(Min2(gravity_abs(from_id(PayloadAt(probe.terrain.chunk_map,
                                                        probe.global).id).gravity),
                           PayloadAt(probe.terrain.chunk_map, probe.global).density),
                      U8_MAX - PayloadAt(probe.terrain.chunk_map, GravPos).density),
                 MAX_TARGET_DENSITY)

\* a call on a gas over the same id moved density
C24_Witness == GasOverSameId /\ DensityMoved > 0

\* seq walks rows in descending y iff y_desc and, within a row, columns in descending
\* x iff x_desc
WalksInOrder(seq, y_desc, x_desc) ==
    \A i, j \in 1..Len(seq) :
        i < j =>
            /\ IF y_desc THEN seq[i][2] >= seq[j][2] ELSE seq[i][2] <= seq[j][2]
            /\ seq[i][2] = seq[j][2] =>
                IF x_desc THEN seq[i][1] > seq[j][1] ELSE seq[i][1] < seq[j][1]

\* C25: the texel pass walks the dirty_rect snapshot with y descending iff the frame is
\* even and x descending iff frame div 2 is even, visits every cell of the snapshot
\* exactly once, and the passes of four consecutive frames over the whole chunk use each
\* of the four scan orders exactly once
C25_ScanOrders ==
    (probe.kind = "scan_cells" /\ probe.done) =>
        /\ \A k \in 1..4 :
            /\ WalksInOrder(probe.result[k], (probe.frame + k - 1) % 2 = 0,
                            ((probe.frame + k - 1) \div 2) % 2 = 0)
            /\ {probe.result[k][i] : i \in 1..Len(probe.result[k])}
                = {l \in Locals : InRect(probe.rect, l)}
            /\ Len(probe.result[k]) = Cardinality({l \in Locals : InRect(probe.rect, l)})
        /\ probe.rect = ChunkRect(ZERO, <<SIZE_X - 1, SIZE_Y - 1>>) =>
            \A y_desc, x_desc \in BOOLEAN :
                Cardinality({k \in 1..4 : WalksInOrder(probe.result[k], y_desc, x_desc)}) = 1

\* the passes of four consecutive frames over the whole chunk were computed
C25_Witness ==
    /\ probe.kind = "scan_cells" /\ probe.done
    /\ probe.rect = ChunkRect(ZERO, <<SIZE_X - 1, SIZE_Y - 1>>)
    /\ probe.frame % 4 = 3
    /\ Len(probe.result[1]) = TexelCount

\* C26: for every row y, negative rows included, the slide order [RIGHT, LEFT] is
\* reversed exactly when (frame / 73) mod 2 equals y mod 2, and the rows y and y + 1
\* try the two horizontal directions in opposite order
C26_RowsAlternate ==
    (probe.kind = "slide_dirs" /\ probe.done) =>
        /\ probe.result[1] =
            IF (probe.frame \div 73) % 2 = probe.y % 2
            THEN <<LEFT, RIGHT>>
            ELSE <<RIGHT, LEFT>>
        /\ probe.result[1] # probe.result[2]

\* the behaviour of the texel simulate_texel was called on
MoverBehaviour == from_id(PayloadAt(probe.terrain.chunk_map, probe.global).id)

\* C27: a call of simulate_texel on a Gas whose gravity strength is not greater than
\* the byte drawn swaps nothing and transfers no density; a call on a Solid or a
\* Liquid with gravity returns the same terrain whatever the byte
C27_GasGate ==
    (probe.kind = "simulate_texel" /\ probe.done /\ MoverBehaviour.gravity.some) =>
        /\ (MoverBehaviour.form = "Gas" /\ ~(gravity_abs(MoverBehaviour.gravity) > probe.r)) =>
            probe.result = probe.terrain
        /\ MoverBehaviour.form # "Gas" =>
            \A r \in MoverBytes :
                probe.result = simulate_texel(probe.terrain, probe.global, probe.frame, r)

\* a gas that would have moved with a smaller byte was called with a byte equal to its
\* strength and stayed
C27_Witness ==
    /\ probe.kind = "simulate_texel" /\ probe.done
    /\ MoverBehaviour.form = "Gas"
    /\ probe.r = gravity_abs(MoverBehaviour.gravity)
    /\ probe.result = probe.terrain
    /\ simulate_texel(probe.terrain, probe.global, probe.frame, probe.r - 1) # probe.terrain

\* the cells of the window holding the gas id in the terrain disperse_gas was called on
WindowCellsOf(id) ==
    {GasWindow[i] : i \in {k \in 1..Len(GasWindow) :
        PayloadAt(probe.terrain.chunk_map, GasWindow[k]).id = id}}

\* the gas ids present in the window
WindowGasIds == {id \in KnownIds : from_id(id).form = "Gas" /\ WindowCellsOf(id) # {}}

\* the densities of the id in the window
WindowDensities(id) == {PayloadAt(probe.terrain.chunk_map, g).density : g \in WindowCellsOf(id)}

RECURSIVE WindowMinSlots(_)
\* the minimum slots of the ids S: density / 256 + 1 each
WindowMinSlots(S) ==
    IF S = {} THEN 0
    ELSE (DensitySum(probe.terrain.chunk_map, WindowCellsOf(CHOOSE id \in S : TRUE))
                \div (TILE_CAPACITY + 1)) + 1
         + WindowMinSlots(S \ {CHOOSE id \in S : TRUE})

\* the cells of the window that are empty or hold a gas, minus the minimum slots
WindowFreeSlots ==
    Cardinality({i \in 1..Len(GasWindow) :
        \/ is_empty(PayloadAt(probe.terrain.chunk_map, GasWindow[i]).id)
        \/ from_id(PayloadAt(probe.terrain.chunk_map, GasWindow[i]).id).form = "Gas"})
    - WindowMinSlots(WindowGasIds)

\* for every gas id of the window max - min <= STABLE_TRESHOLD, and a slot is free
WindowLevel ==
    /\ WindowGasIds # {}
    /\ \A id \in WindowGasIds :
        SetMax(WindowDensities(id)) - SetMin(WindowDensities(id)) <= STABLE_TRESHOLD
    /\ WindowFreeSlots > 0

\* C28, as the code keeps it: disperse_gas leaves every cell of the window unchanged
\* whenever, for every gas id present, max - min <= STABLE_TRESHOLD and the largest
\* density is at most STABLE_TRESHOLD, and a slot is free after the minimum slots
C28_ThinLevelGasStays ==
    (probe.kind = "disperse_gas" /\ probe.done /\ WindowLevel
        /\ \A id \in WindowGasIds : SetMax(WindowDensities(id)) <= STABLE_TRESHOLD)
    => probe.result.terrain = probe.terrain

\* C28 as stated: max - min <= STABLE_TRESHOLD and a free slot are enough
C28_LevelGasStays ==
    (probe.kind = "disperse_gas" /\ probe.done /\ WindowLevel) => probe.result.terrain = probe.terrain

\* a window with two cells of thin gas of different density and a free cell was left
\* as it was
C28_Witness ==
    /\ probe.kind = "disperse_gas" /\ probe.done /\ WindowLevel
    /\ \E id \in WindowGasIds : Cardinality(WindowDensities(id)) > 1
    /\ \A id \in WindowGasIds : SetMax(WindowDensities(id)) <= STABLE_TRESHOLD
    /\ probe.result.terrain = probe.terrain

\* C29: for every chunk index, negative x or y included, at least one of 100
\* consecutive ticks marks the chunk fully dirty
C29_EveryChunkRefreshed ==
    (probe.kind = "refresher" /\ probe.done) => probe.result # {}

\* a chunk of non-negative index was marked fully dirty in exactly one of the ticks
C29_Witness ==
    /\ probe.kind = "refresher" /\ probe.done
    /\ probe.chunk_index[1] >= 0 /\ probe.chunk_index[2] >= 0
    /\ Cardinality(probe.result) = 1

\* a tick ran with no call of the API since, and every cell holds the id and the
\* density it held when the tick began
QuietTick == tick_pre.fresh /\ CellsHeld(chunk_map) = tick_pre.cells

\* a tick ran with no call of the API since, and no step of it changed the id of a cell
StillTick == tick_pre.fresh /\ tick_pre.still

\* the chunks of the snapshot of the tick are clean
SnapshotClean ==
    \A index \in tick_pre.indices :
        chunk_map[index].some => ~chunk_map[index].chunk.dirty_rect.some

\* the latest emission sent no TexelsUpdated for a chunk of the snapshot of the tick
SnapshotUnsent ==
    \A k \in DOMAIN emitted.sent :
        ~(emitted.sent[k].kind = "TexelsUpdated"
            /\ emitted.sent[k].index \in tick_pre.indices)

\* C30, as the code keeps it: if no step of a tick changes the id of a cell, then at
\* the end of the tick no chunk of the tick's index snapshot has a dirty_rect, and the
\* emission that follows sends no TexelsUpdated for those chunks.
C30_StillTickLeavesClean ==
    /\ (stage = "EventHandler" /\ sim.pc = "idle" /\ StillTick) => SnapshotClean
    /\ (stage = "First" /\ StillTick) => SnapshotUnsent

\* C30 as stated: if every cell holds after the tick the id and the density it held
\* before it, then at the end of the tick no chunk of the tick's index snapshot has a
\* dirty_rect, and the emission that follows sends no TexelsUpdated for those chunks.
C30_QuietTickLeavesClean ==
    /\ (stage = "EventHandler" /\ sim.pc = "idle" /\ QuietTick) => SnapshotClean
    /\ (stage = "First" /\ QuietTick) => SnapshotUnsent

\* the emission after the tick of frame 1 has run: the tick found a cell written by
\* the API, the refresher marked chunk (1, 0) fully dirty, and no step changed an id
C30_Witness ==
    /\ stage = "First" /\ StillTick /\ frame = 1
    /\ <<1, 0>> \in tick_pre.indices
    /\ \E g \in AllCells : tick_pre.cells[g][1] # 0
    /\ emitted.sent # <<>>

\* the rect lies inside the chunk: 0 <= min.x <= max.x <= W-1 and 0 <= min.y <= max.y <= H-1
RectInChunk(rect) ==
    /\ 0 <= rect.min[1] /\ rect.min[1] <= rect.max[1] /\ rect.max[1] <= SIZE_X - 1
    /\ 0 <= rect.min[2] /\ rect.min[2] <= rect.max[2] /\ rect.max[2] <= SIZE_Y - 1

\* every present chunk: its dirty_rect, if any, lies inside the chunk, and
\* mark_all_dirty would set it to exactly (0, 0)..(W-1, H-1)
DirtyRectsInRange ==
    \A index \in ChunkIndices :
        chunk_map[index].some =>
            /\ chunk_map[index].chunk.dirty_rect.some =>
                    RectInChunk(chunk_map[index].chunk.dirty_rect)
            /\ mark_all_dirty(chunk_map[index].chunk).dirty_rect
                    = [some |-> TRUE, min |-> <<0, 0>>, max |-> <<SIZE_X - 1, SIZE_Y - 1>>]

\* the step calls mark_clean on the chunk at index: the tick visits it
CleansChunk(index) ==
    sim.pc = "chunk" /\ sim.indices # <<>> /\ Head(sim.indices) = index

\* the step puts another chunk at an index or takes one away
ReplacesChunk == ops' # ops /\ last_op'.kind \in {"add_chunk", "remove_chunk"}

\* the dirty_rect of the chunk at index covers after the step what it covered before
RectKept(index) ==
    (chunk_map[index].some /\ chunk_map[index].chunk.dirty_rect.some
            /\ ~CleansChunk(index) /\ ~ReplacesChunk) =>
        /\ chunk_map'[index].some /\ chunk_map'[index].chunk.dirty_rect.some
        /\ \A l \in Locals :
            InRect(chunk_map[index].chunk.dirty_rect, l)
                => InRect(chunk_map'[index].chunk.dirty_rect, l)

\* C31: mark_all_dirty sets the dirty_rect to exactly min = (0, 0), max = (W-1, H-1);
\* every dirty_rect reached through the operations of Terrain2D and the ticks lies
\* inside the chunk; between two mark_clean calls a chunk's dirty_rect never shrinks.
C31_DirtyRectInRangeAndGrows ==
    /\ []DirtyRectsInRange
    /\ [][\A index \in ChunkIndices : RectKept(index)]_vars

\* a tick has ended and a chunk is dirty in more than one of its cells, but not in all
C31_Witness ==
    /\ \E index \in ChunkIndices :
        /\ chunk_map[index].some /\ chunk_map[index].chunk.dirty_rect.some
        /\ chunk_map[index].chunk.dirty_rect.min # chunk_map[index].chunk.dirty_rect.max
        /\ \E l \in Locals : ~InRect(chunk_map[index].chunk.dirty_rect, l)
    /\ frame >= 1 /\ stage = "EventHandler"

\* C32: Chunk2D.set_texel at a local position outside [0,W) x [0,H) aborts without
\* modifying the chunk and Chunk2D.get_texel returns None there; the position an
\* operation of Terrain2D hands to the chunk, for any global position, negative
\* coordinates included, is inside the chunk and never triggers that abort.
C32_OutOfRangeAbortsOnlyDirectly ==
    (probe.kind = "chunk_access" /\ probe.done) =>
        /\ (probe.via = "Chunk2D" /\ ~InChunk(probe.position)) =>
                /\ probe.result.panic
                /\ probe.result.chunk = probe.chunk
                /\ ~probe.result.got.some
        /\ (probe.via = "Chunk2D" /\ InChunk(probe.position)) =>
                ~probe.result.panic /\ probe.result.got.some
        /\ probe.via = "Terrain2D" => ~probe.result.panic /\ probe.result.got.some

\* an operation of Terrain2D wrote a texel at a global position with two negative
\* coordinates
C32_Witness ==
    /\ probe.kind = "chunk_access" /\ probe.done /\ probe.via = "Terrain2D"
    /\ probe.position[1] < 0 /\ probe.position[2] < 0
    /\ ~probe.result.panic /\ probe.result.chunk # probe.chunk

\* a tick is running or has run with no call of the API since, and the chunk at index
\* is present without being in the snapshot of the tick: the tick created it
CreatedInTick(index) ==
    /\ tick_pre.fresh
    /\ chunk_map[index].some
    /\ index \notin tick_pre.indices

\* the chunks the tick created hold a dirty_rect
CreatedStayDirty ==
    \A index \in ChunkIndices :
        CreatedInTick(index) => chunk_map[index].chunk.dirty_rect.some

\* the tick visits only indices of its snapshot, and a visit of a dirty chunk scans
\* every cell of its dirty_rect
VisitsSnapshot ==
    (sim.pc = "chunk" /\ sim.indices # <<>>) =>
        /\ Head(sim.indices) \in tick_pre.indices
        /\ ~CreatedInTick(Head(sim.indices))
        /\ (chunk_map[Head(sim.indices)].some
                /\ chunk_map[Head(sim.indices)].chunk.dirty_rect.some) =>
            /\ sim'.pc = "texel" /\ sim'.chunk_index = Head(sim.indices)
            /\ \A l \in Locals :
                InRect(chunk_map[Head(sim.indices)].chunk.dirty_rect, l)
                    => \E i \in DOMAIN sim'.cells : sim'.cells[i] = l

\* the snapshot of the next tick holds the chunks the tick before created, still dirty
NextTickTakesCreated ==
    (stage = "Simulation" /\ sim.pc = "idle" /\ sim'.pc = "chunk") =>
        \A index \in ChunkIndices :
            CreatedInTick(index) =>
                /\ index \in tick_pre'.indices
                /\ \E i \in DOMAIN sim'.indices : sim'.indices[i] = index
                /\ chunk_map'[index].chunk.dirty_rect.some

\* the chunks the tick created hold a dirty_rect over every cell that is not empty
CreatedDirtyUnlessEmpty ==
    \A index \in ChunkIndices :
        CreatedInTick(index) =>
            \A l \in Locals :
                chunk_map[index].chunk.texels[local_to_texel_index(l)].id # 0
                    => InRect(chunk_map[index].chunk.dirty_rect, l)

\* the snapshot of the next tick holds the chunks the tick before created, as they are
NextTickTakesCreatedAsIs ==
    (stage = "Simulation" /\ sim.pc = "idle" /\ sim'.pc = "chunk") =>
        \A index \in ChunkIndices :
            CreatedInTick(index) =>
                /\ index \in tick_pre'.indices
                /\ \E i \in DOMAIN sim'.indices : sim'.indices[i] = index
                /\ chunk_map'[index] = chunk_map[index]

\* C33, as the code keeps it: a chunk created during a tick is not scanned in that
\* tick, which iterates the snapshot of the indices taken at its start; its dirty_rect
\* covers every cell of it that is not empty (a chunk created by the write of an empty
\* texel has none); with no call of the API in between it is in the snapshot of the
\* next tick, unchanged, and scanned there if it has a dirty_rect.
C33_CreatedChunkWaitsIfDirty ==
    /\ []CreatedDirtyUnlessEmpty
    /\ [][VisitsSnapshot /\ NextTickTakesCreatedAsIs]_vars

\* C33 as stated: a chunk created during a tick (by a write into a position whose chunk was
\* absent) is not scanned in that tick, which iterates the snapshot of the indices
\* taken at its start; it keeps its dirty_rect until the end of the tick and, with no
\* call of the API in between, is in the snapshot of the next tick and scanned there.
C33_CreatedChunkWaitsForNextTick ==
    /\ []CreatedStayDirty
    /\ [][VisitsSnapshot /\ NextTickTakesCreated]_vars

\* the tick of frame 2 scans chunk (1, 0), which the tick of frame 1 created: the one
\* call of the API was a set_texel that created the other chunk, and the emission of
\* frame 1 sent ChunkAdded for both
C33_Witness ==
    /\ frame = 2 /\ sim.pc = "texel" /\ sim.chunk_index = <<1, 0>>
    /\ ops = 1 /\ last_op.kind = "set_texel"
    /\ emitted.count = 1
    /\ \E k \in DOMAIN emitted.sent : emitted.sent[k] = ChunkAdded(<<1, 0>>)
    /\ \E k \in DOMAIN emitted.sent : emitted.sent[k] = ChunkAdded(<<0, 0>>)

\* C34: a last_simulation value written by an earlier tick never equals the tag of the
\* current tick, so the texel pass never skips a cell for a stamp of an earlier tick.
C34_OldStampNeverSkips ==
    (probe.kind = "skip_test" /\ probe.done) => ~probe.result

\* the ChunkAdded and ChunkRemoved events queued so far for the index, oldest first:
\* those sent already, then those still in the queue
LifecycleOf(index) ==
    SelectSeq(terrain_events \o events,
        LAMBDA ev : ev.index = index /\ ev.kind \in {"ChunkAdded", "ChunkRemoved"})

\* the events alternate, ChunkAdded first
Alternates(evs) ==
    \A k \in DOMAIN evs :
        evs[k].kind = IF k % 2 = 1 THEN "ChunkAdded" ELSE "ChunkRemoved"

\* C35: for every chunk index the ChunkAdded and ChunkRemoved events queued for it
\* strictly alternate, starting with ChunkAdded, and the chunk is present exactly when
\* the last of them is ChunkAdded, for any sequence of add_chunk, remove_chunk and
\* set_texel calls.
C35_LifecycleAlternates ==
    \A index \in ChunkIndices :
        /\ Alternates(LifecycleOf(index))
        /\ chunk_map[index].some <=>
                /\ LifecycleOf(index) # <<>>
                /\ LifecycleOf(index)[Len(LifecycleOf(index))].kind = "ChunkAdded"

\* the ids of the registry that are Solid or Liquid
SolidOrLiquidIds == {id \in KnownIds : from_id(id).form \in {"Solid", "Liquid"}}

\* the number of cells holding the id in a record of the cells
CountOf(cells, id) == Cardinality({g \in AllCells : cells[g][1] = id})

\* C36: when a tick ends that no call of the API interrupted, every Solid or Liquid id
\* is held by as many cells of the world as when the tick began.
C36_TickKeepsSolidAndLiquidCounts ==
    (stage = "EventHandler" /\ sim.pc = "idle" /\ tick_pre.fresh) =>
        \A id \in SolidOrLiquidIds :
            CountOf(CellsHeld(chunk_map), id) = CountOf(tick_pre.cells, id)

\* a tick has ended in which swaps moved content, a sand cell and a water cell among
\* the cells of the world
C36_Witness ==
    /\ stage = "EventHandler" /\ sim.pc = "idle" /\ tick_pre.fresh
    /\ moved # {}
    /\ CellsHeld(chunk_map) # tick_pre.cells
    /\ \E id \in SolidOrLiquidIds :
        /\ from_id(id).form = "Solid" /\ from_id(id).gravity.some
        /\ CountOf(tick_pre.cells, id) > 0
    /\ \E id \in SolidOrLiquidIds :
        from_id(id).form = "Liquid" /\ CountOf(tick_pre.cells, id) > 0

WindowValid == Len(valid_globals(probe.terrain, GasWindow))

\* C38: for every content of a window the minimum slots (total / 256 + 1) of the gas
\* ids sum to at most the number of valid cells, so free_slots does not underflow; the
\* packing step produces at most as many gas texels as there are valid cells; and
\* disperse_gas does not reach its panic.
C38_DisperseNeverPanics ==
    (probe.kind = "disperse_gas" /\ probe.done) =>
        /\ ~probe.result.panic
        /\ \A order \in GasOrders(probe.terrain, GasWindow) :
            LET totals == total_densities(probe.terrain, GasWindow)
                free_slots == WindowValid - SumMinSlots(totals, order, 1)
            IN  /\ free_slots >= 0
                /\ Len(PackAll(totals, order, free_slots, 1)) <= WindowValid

\* disperse_gas returned from a window whose valid cells all hold gas of one id at
\* density u8::MAX: no slot is free
C38_Witness ==
    /\ probe.kind = "disperse_gas" /\ probe.done /\ ~probe.result.panic
    /\ WindowValid >= 2
    /\ \A i \in 1..Len(GasWindow) :
        PayloadAt(probe.terrain.chunk_map, GasWindow[i]).id \in {8, 12}
    /\ \A i \in 1..Len(GasWindow) :
        PayloadAt(probe.terrain.chunk_map, GasWindow[i]).id = 8
            => PayloadAt(probe.terrain.chunk_map, GasWindow[i]).density = U8_MAX

\* can_displace was asked whether the material m displaces a cell of the material m
AskedOfItself(m) ==
    /\ probe.kind = "can_displace" /\ probe.done
    /\ probe.from = from_id(m) /\ probe.to = from_id(m)

\* what can_displace answers for a material against itself: false, except for a
\* material that has no gravity and is not Solid (oxygen, id 8), for which it is true
SelfDisplaceOnlyWithoutGravity ==
    \A m \in KnownIds :
        AskedOfItself(m) =>
            (probe.result <=> (~from_id(m).gravity.some /\ from_id(m).form # "Solid"))

\* C39: no material can displace a cell of the same material: for every material id m
\* of the registry, can_displace(behaviour(m), behaviour(m)) is false.
C39_NoSelfDisplace ==
    \A m \in KnownIds : AskedOfItself(m) => ~probe.result

\* can_displace answered false for water against water
WaterKeepsWater == AskedOfItself(4) /\ ~probe.result

====
